---- MODULE Spec2Model ----
(***************************************************************************)
(* Oak control plane: the agent registry (Registry, AgentInfo), the        *)
(* streaming service (Service.AgentStream and its two per-session loops)   *)
(* and the credential broker (AgentManagementService).                     *)
(*                                                                         *)
(* Registry code : src/oak-server/internal/grpc/integration_test.go        *)
(*                 lines 406-640 (type AgentInfo ... timestampNow)         *)
(* Service code  : src/README.md lines 93-372                              *)
(* Broker code   : src/oak-server/internal/grpc/agent_management.go        *)
(***************************************************************************)
EXTENDS Integers, Sequences, FiniteSets, TLC

(***************************************************************************)
(* Bounds of the model.                                                    *)
(***************************************************************************)
\* messages the API callers may create in one behaviour
MaxMsgs == 2
\* capacity of the queue Register allocates (make(chan, 100) in the code,
\* scaled down so that a full queue is reached)
SendChanCap == 2
\* largest capacity of a queue supplied by the caller of Register (tests)
MaxInjectCap == 1
\* most identities approveAgent issues
MaxIssued == 2
\* largest active job count a heartbeat reports
MaxJobs == 1
\* the clock stops here
MaxTime == 2
\* largest heartbeat timeout handed to CheckHealth, in clock ticks
MaxTimeout == 1

(***************************************************************************)
(* Tasks, session ids, AgentInfo objects.                                  *)
(***************************************************************************)
\* goroutines that call the registry API directly (tests, API handlers)
Procs == {"p1", "p2"}
\* accepted streams; each has one handler goroutine running AgentStream
Streams == {"s1", "s2"}
Tasks == Procs \cup Streams
NoTask == "none"

\* session ids a direct caller chooses
DirectIds == {"a1"}
\* AgentInfo objects a direct caller allocates, in allocation order
ObjPool == <<"o1", "o2">>
NoObj == "none"

\* as generateMessageID, giving every stream the same id
generateMessageID_Same(st) == "u1"

\* generateMessageID(): uuid.New().String().  A fresh value: the id handed
\* to stream st differs from every other id in use.
generateMessageID(st) == IF st = "s1" THEN "u1" ELSE "u2"
StreamIds == {generateMessageID(st) : st \in Streams}
\* session ids the callers of the read operations register: Register takes
\* any string, so an id may also be the id of a cluster
ReadIds == {"a1", "c1"}
Ids == DirectIds \cup StreamIds \cup ReadIds

\* the AgentInfo the handler of stream st allocates (agentInfo := &AgentInfo{})
InfoOf(st) == IF st = "s1" THEN "i1" ELSE "i2"
\* every AgentInfo object: those of the direct callers, those of the streams
Objs == {ObjPool[i] : i \in 1..Len(ObjPool)} \cup {InfoOf(st) : st \in Streams}
\* a nil map or a nil pointer
NilRef == "nil"

\* error values of the registry
ErrAgentNotFound == "AgentNotFound"
ErrSendChannelFull == "SendChannelFull"
ErrAgentDisconnected == "AgentDisconnected"
Ok == "ok"

VARIABLES
    \* ---- Registry ----
    agents,        \* Registry.agents : id -> AgentInfo object, or NoObj
    info,          \* the AgentInfo objects (fields other than the channel)
    chan,          \* AgentInfo.SendChan of each object: a Go channel
    mu,            \* AgentInfo.mu of each object: the task that holds it
    rmu,           \* Registry.mu: the task that holds the write lock
    now,           \* time.Now()
    nextObj,       \* number of AgentInfo objects direct callers allocated
    nextMsg,       \* number of ServerMessages created so far
    \* ---- tasks ----
    pc,            \* position of every task (direct caller, stream handler)
    arg,           \* operands of the registry call a task is executing
    res,           \* the send that returned last: its id and its result
    \* ---- history ----
    panicked,      \* a close of a closed channel or a send on one happened
    closeCount,    \* how many times close() ran on each object's channel
    accepted,      \* messages each object's queue accepted, in order
    unregDone,     \* ids whose Unregister has returned, not registered since
    \* ---- Service.AgentStream, per stream ----
    hid,           \* agentID: the session id the handler generated ("" before)
    hres,          \* what AgentStream returned ("none" while it runs)
    ipc,           \* position of the receiveMessages goroutine
    opc,           \* position of the sendMessages goroutine
    inHand,        \* the message sendMessages took and is writing
    errChan,       \* errChan: results of the two goroutines (capacity 2)
    ctxDone,       \* stream.Context() is cancelled
    wire,          \* ServerMessages written to the stream, in order
    writers,       \* goroutines inside stream.Send right now
    firstIn,       \* what the first stream.Recv() of the handler returned
    sawReg,        \* receiveMessages was handed a Registration payload
    \* ---- AgentManagementService ----
    records,       \* AgentManagementService.agents : cluster_id -> AgentState
    issued,        \* number of identities approveAgent has stored
    bpc,           \* position of every caller of the service
    breq,          \* the CredentialsRequest a caller's approveAgent works on
    bcall,         \* the step taken last: operation and request
    bresp,         \* the response returned last
    \* ---- values behind references, reads, Service lifecycle ----
    heap,          \* the Labels map and the Capabilities message of each object
    ret,           \* what the read operation called last returned
    lastOp,        \* the registry or service operation that ran last
    hpc,           \* position of the health checker goroutine
    htimeout,      \* the timeout the health checker was started with
    sctx,          \* Service.ctx is cancelled
    spc,           \* position of the caller of Shutdown / Server.Stop
    \* ---- the peers of the server ----
    peerCert,      \* what the TLS handshake of a stream's connection saw
    admin          \* the admin tooling: its ListPending loop, what it read

regVars == <<agents, info, chan, mu, rmu, now, nextObj, nextMsg>>
taskVars == <<pc, arg, res>>
histVars == <<panicked, closeCount, accepted, unregDone>>
streamVars == <<hid, hres, ipc, opc, inHand, errChan, ctxDone, wire,
                writers, firstIn, sawReg>>
brokerVars == <<records, issued, bpc, breq, bcall, bresp>>
svcVars == <<heap, ret, lastOp, hpc, htimeout, sctx, spc>>
peerVars == <<peerCert, admin>>
vars == <<regVars, taskVars, histVars, streamVars, brokerVars, svcVars,
          peerVars>>

(***************************************************************************)
(* Go channels.                                                            *)
(***************************************************************************)
NilChan == [made |-> FALSE, buf |-> <<>>, closed |-> FALSE, cap |-> 0]
MakeChan(n) == [made |-> TRUE, buf |-> <<>>, closed |-> FALSE, cap |-> n]

\* as ChanSendNB, with the capacity test off by one
ChanSendNB_OffByOne(ch, msg) ==
    IF ch.closed
        THEN [err |-> "panic", ch |-> ch]
        ELSE IF Len(ch.buf) <= ch.cap
            THEN [err |-> "ok", ch |-> [ch EXCEPT !.buf = Append(@, msg)]]
            ELSE [err |-> "SendChannelFull", ch |-> ch]

\* select { case ch <- msg: return nil; default: return ErrSendChannelFull }
\* A send on a closed channel panics.
ChanSendNB(ch, msg) ==
    IF ch.closed
        THEN [err |-> "panic", ch |-> ch]
        ELSE IF Len(ch.buf) < ch.cap
            THEN [err |-> Ok, ch |-> [ch EXCEPT !.buf = Append(@, msg)]]
            ELSE [err |-> ErrSendChannelFull, ch |-> ch]

\* close(ch): a second close panics
ChanClose(ch) == [ch EXCEPT !.closed = TRUE]

(***************************************************************************)
(* AgentInfo.                                                              *)
(***************************************************************************)
ZeroInfo == [agentID |-> "", clusterID |-> "", labels |-> NilRef,
             capabilities |-> NilRef, status |-> "UNSPECIFIED",
             activeJobs |-> 0, connectedAt |-> 0, lastHeartbeat |-> 0,
             closed |-> FALSE]

\* Registry.Register, the part that fills the AgentInfo in
RegisterInfo(inf, id) ==
    [inf EXCEPT !.agentID = id, !.connectedAt = now, !.lastHeartbeat = now]

\* Registry.Register: "Only create SendChan if not provided (for tests)"
RegisterChan(ch) == IF ch.made THEN ch ELSE MakeChan(SendChanCap)

\* Registry.Unregister, under info.mu: close the channel once
CloseOnce(inf, ch) ==
    IF ~inf.closed
        THEN [info |-> [inf EXCEPT !.closed = TRUE], ch |-> ChanClose(ch),
              closes |-> 1, panic |-> ch.closed]
        ELSE [info |-> inf, ch |-> ch, closes |-> 0, panic |-> FALSE]

\* as MapDelete, with the delete left out
MapDelete_Keep(m, id) == m

\* Registry.Unregister: delete(r.agents, agentID)
MapDelete(m, id) == [m EXCEPT ![id] = NoObj]

\* as TrySend, without the check of info.closed
TrySend_NoClosedCheck(inf, ch, msg) == ChanSendNB(ch, msg)

\* Registry.sendMessage, under info.mu: the closed check and the select
TrySend(inf, ch, msg) ==
    IF inf.closed
        THEN [err |-> ErrAgentDisconnected, ch |-> ch]
        ELSE ChanSendNB(ch, msg)

\* copyAgentInfo: a new AgentInfo with the scalar fields, and with Labels
\* and Capabilities assigned as they are (the same map, the same pointer);
\* SendChan and mu are not copied, closed keeps its zero value
copyAgentInfo(inf) == [inf EXCEPT !.closed = FALSE]

\* Registry.Get: the copy of the entry under the id, if there is one
Get(id) ==
    IF id \notin Ids \/ agents[id] = NoObj
        THEN [found |-> FALSE, info |-> ZeroInfo]
        ELSE [found |-> TRUE, info |-> copyAgentInfo(info[agents[id]])]

\* Registry.Count
Count == Cardinality({id \in Ids : agents[id] # NoObj})

\* SendCommand / SendConfigUpdate wrap the payload in a ServerMessage
ServerMessage(n, kind) == [id |-> n, kind |-> kind, agentId |-> ""]
SendKinds == {"Command", "ConfigUpdate"}

NoMsg == ServerMessage(0, "none")

\* a Heartbeat payload (nil: no payload)
NilHeartbeat == [nil |-> TRUE, status |-> "UNSPECIFIED", activeJobs |-> 0]
Heartbeats ==
    {[nil |-> FALSE, status |-> s, activeJobs |-> j] :
        s \in {"HEALTHY", "UNHEALTHY"}, j \in 0..MaxJobs}

\* operands of the call a task is in: the id, the AgentInfo it found, the
\* message, and whether an Unregister of the id had returned when it began
NoArg == [id |-> "", obj |-> NoObj, msg |-> NoMsg, after |-> FALSE]
NoRes == [id |-> "", err |-> "none", after |-> FALSE]

(***************************************************************************)
(* Registry operations, one action per critical section.                   *)
(***************************************************************************)
\* where a task goes after its Unregister: a direct caller is idle again,
\* the handler of a stream has returned
UnregExit(t) == IF t \in Procs THEN "idle" ELSE "returned"

\* Register(agentID, info), where the caller built the AgentInfo inf at
\* address o: the whole body runs under r.mu.Lock()
RegisterWith(t, id, o, inf, ch) ==
    /\ rmu = NoTask
    /\ info' = [info EXCEPT ![o] = RegisterInfo(inf, id)]
    /\ chan' = [chan EXCEPT ![o] = RegisterChan(ch)]
    /\ agents' = [agents EXCEPT ![id] = o]
    /\ unregDone' = unregDone \ {id}
    /\ UNCHANGED <<mu, rmu, now, nextMsg>>
    /\ UNCHANGED <<panicked, closeCount, accepted>>

\* Register of an AgentInfo whose fields the caller left at their zero values
Register(t, id, o, ch) == RegisterWith(t, id, o, info[o], ch)

\* a direct caller builds an AgentInfo (with or without its own SendChan)
\* and registers it
DirectRegister(p, id, capIn) ==
    /\ pc[p] = "idle"
    /\ nextObj < Len(ObjPool)
    /\ Register(p, id, ObjPool[nextObj + 1],
                IF capIn = 0 THEN NilChan ELSE MakeChan(capIn))
    /\ nextObj' = nextObj + 1
    /\ UNCHANGED taskVars

\* Unregister: r.mu.Lock()
UnregisterLock(t, id) ==
    /\ pc[t] = IF t \in Procs THEN "idle" ELSE "deferred"
    /\ rmu = NoTask
    /\ rmu' = t
    /\ pc' = [pc EXCEPT ![t] = "unreg_locked"]
    /\ arg' = [arg EXCEPT ![t] = [NoArg EXCEPT !.id = id, !.obj = agents[id]]]
    /\ UNCHANGED <<agents, info, chan, mu, now, nextObj, nextMsg, res>>
    /\ UNCHANGED histVars

\* Unregister: the id is not in the map; the deferred r.mu.Unlock() runs
UnregisterMiss(t) ==
    /\ pc[t] = "unreg_locked"
    /\ agents[arg[t].id] = NoObj
    /\ rmu' = NoTask
    /\ pc' = [pc EXCEPT ![t] = UnregExit(t)]
    /\ arg' = [arg EXCEPT ![t] = NoArg]
    /\ UNCHANGED <<agents, info, chan, mu, now, nextObj, nextMsg, res>>
    /\ UNCHANGED histVars

\* Unregister: info.mu.Lock(); if !closed { closed = true; close(SendChan) };
\* info.mu.Unlock()
UnregisterClose(t) ==
    /\ pc[t] = "unreg_locked"
    /\ agents[arg[t].id] # NoObj
    /\ LET o == agents[arg[t].id]
           r == CloseOnce(info[o], chan[o])
       IN /\ mu[o] = NoTask
          /\ info' = [info EXCEPT ![o] = r.info]
          /\ chan' = [chan EXCEPT ![o] = r.ch]
          /\ closeCount' = [closeCount EXCEPT ![o] = @ + r.closes]
          /\ panicked' = (panicked \/ r.panic)
    /\ pc' = [pc EXCEPT ![t] = "unreg_closed"]
    /\ UNCHANGED <<agents, mu, rmu, now, nextObj, nextMsg, arg, res>>
    /\ UNCHANGED <<accepted, unregDone>>

\* Unregister: delete(r.agents, agentID); the deferred r.mu.Unlock() runs
UnregisterDelete(t) ==
    /\ pc[t] = "unreg_closed"
    /\ agents' = MapDelete(agents, arg[t].id)
    /\ rmu' = NoTask
    /\ unregDone' = unregDone \cup {arg[t].id}
    /\ pc' = [pc EXCEPT ![t] = UnregExit(t)]
    /\ arg' = [arg EXCEPT ![t] = NoArg]
    /\ UNCHANGED <<info, chan, mu, now, nextObj, nextMsg, res>>
    /\ UNCHANGED <<panicked, closeCount, accepted>>

\* SendCommand / SendConfigUpdate build the message, then sendMessage:
\* r.mu.RLock(); info, exists := r.agents[agentID]; r.mu.RUnlock();
\* if !exists { return ErrAgentNotFound }
SendLookup(p, id, kind) ==
    /\ pc[p] = "idle"
    /\ nextMsg < MaxMsgs
    /\ rmu = NoTask
    /\ nextMsg' = nextMsg + 1
    /\ IF agents[id] = NoObj
         THEN /\ res' = [id |-> id, err |-> ErrAgentNotFound,
                         after |-> (id \in unregDone)]
              /\ UNCHANGED <<pc, arg>>
         ELSE /\ pc' = [pc EXCEPT ![p] = "send_found"]
              /\ arg' = [arg EXCEPT ![p] =
                            [id |-> id, obj |-> agents[id],
                             msg |-> ServerMessage(nextMsg + 1, kind),
                             after |-> (id \in unregDone)]]
              /\ UNCHANGED res
    /\ UNCHANGED <<agents, info, chan, mu, rmu, now, nextObj>>
    /\ UNCHANGED histVars

\* sendMessage: info.mu.Lock()
SendAcquire(p) ==
    /\ pc[p] = "send_found"
    /\ mu[arg[p].obj] = NoTask
    /\ mu' = [mu EXCEPT ![arg[p].obj] = p]
    /\ pc' = [pc EXCEPT ![p] = "send_locked"]
    /\ UNCHANGED <<agents, info, chan, rmu, now, nextObj, nextMsg, arg, res>>
    /\ UNCHANGED histVars

\* sendMessage: if info.closed { return ErrAgentDisconnected }; the select;
\* the deferred info.mu.Unlock() runs
SendEnqueue(p) ==
    /\ pc[p] = "send_locked"
    /\ LET o == arg[p].obj
           r == TrySend(info[o], chan[o], arg[p].msg)
       IN /\ chan' = [chan EXCEPT ![o] = r.ch]
          /\ res' = [id |-> arg[p].id, err |-> r.err, after |-> arg[p].after]
          /\ panicked' = (panicked \/ r.err = "panic")
          /\ accepted' = [accepted EXCEPT ![o] =
                            IF r.err = Ok THEN Append(@, arg[p].msg) ELSE @]
          /\ mu' = [mu EXCEPT ![o] = NoTask]
    /\ pc' = [pc EXCEPT ![p] = "idle"]
    /\ arg' = [arg EXCEPT ![p] = NoArg]
    /\ UNCHANGED <<agents, info, rmu, now, nextObj, nextMsg>>
    /\ UNCHANGED <<closeCount, unregDone>>

(***************************************************************************)
(* AgentManagementService: the credential records of the clusters.  The   *)
(* service holds no lock; a call is a sequence of steps, one per access   *)
(* to the agents map, and calls of different callers interleave.          *)
(***************************************************************************)
Callers == {"b1", "b2"}
ClusterIds == {"c1"}
\* cluster ids the registered agents report, and those the admin tooling
\* works on
SessionClusters == ClusterIds \cup {"c2"}

\* oakv1.CredentialsRequest; AgentVersion and KubernetesVersion are carried
\* together through every step
CredentialsRequest ==
    [ClusterId : ClusterIds \cup {""}, ClusterName : {"", "n1", "n2"},
     ApiToken : {"", "tok"}, AgentVersion : {"v1", "v2"}]

\* the request of an operation that takes a cluster_id only
IdRequest(c) ==
    [ClusterId |-> c, ClusterName |-> "", ApiToken |-> "", AgentVersion |-> "v1"]

\* no entry in the agents map
NoRecord ==
    [ClusterName |-> "", AgentID |-> 0, AgentSecret |-> 0, Status |-> "absent",
     ClientCertPEM |-> 0, ClientKeyPEM |-> 0, AgentVersion |-> ""]

\* PollIntervalSeconds of a PendingApproval
PollIntervalSeconds == 30

\* s.certManager.GetCACert()
GetCACert == "ca"

NoResponse ==
    [kind |-> "none", AgentId |-> 0, AgentSecret |-> 0, ClientCertPem |-> 0,
     ClientKeyPem |-> 0, CaCertPem |-> "", PollIntervalSeconds |-> 0,
     Status |-> ""]

\* a response without credentials
Plain(kind, st) == [NoResponse EXCEPT !.kind = kind, !.Status = st]

\* as ApprovedCredentials, leaving the client key out
ApprovedCredentials_NoKey(kind, st, agent) ==
    [kind |-> kind, AgentId |-> agent.AgentID, AgentSecret |-> agent.AgentSecret,
     ClientCertPem |-> agent.ClientCertPEM, ClientKeyPem |-> 0,
     CaCertPem |-> GetCACert, PollIntervalSeconds |-> 0, Status |-> st]

\* oakv1.ApprovedCredentials filled from an AgentState
ApprovedCredentials(kind, st, agent) ==
    [kind |-> kind, AgentId |-> agent.AgentID, AgentSecret |-> agent.AgentSecret,
     ClientCertPem |-> agent.ClientCertPEM, ClientKeyPem |-> agent.ClientKeyPEM,
     CaCertPem |-> GetCACert, PollIntervalSeconds |-> 0, Status |-> st]

\* oakv1.PendingApproval
PendingApproval ==
    [Plain("Pending", "") EXCEPT !.PollIntervalSeconds = PollIntervalSeconds]

\* the switch over the status of an existing record in RequestCredentials
ExistingResponse(agent) ==
    CASE agent.Status = "APPROVED" -> ApprovedCredentials("Approved", "", agent)
      [] agent.Status = "PENDING"  -> PendingApproval
      [] OTHER                     -> Plain("Rejected", "")

\* the AgentState approveAgent stores; n stands for the fresh uuids and the
\* certificate and key generated for them
ApprovedState(req, n) ==
    [ClusterName |-> req.ClusterName, AgentID |-> n, AgentSecret |-> n,
     Status |-> "APPROVED", ClientCertPEM |-> n, ClientKeyPEM |-> n,
     AgentVersion |-> req.AgentVersion]

\* as PendingState, with an agent id filled in
PendingState_WithIdentity(req) ==
    [NoRecord EXCEPT !.ClusterName = req.ClusterName, !.Status = "PENDING",
                     !.AgentVersion = req.AgentVersion, !.AgentID = 1]

\* the AgentState RequestCredentials stores for a request without a token
PendingState(req) ==
    [NoRecord EXCEPT !.ClusterName = req.ClusterName, !.Status = "PENDING",
                     !.AgentVersion = req.AgentVersion]

Returns(b, op, req, resp) ==
    /\ bpc' = [bpc EXCEPT ![b] = "idle"]
    /\ breq' = [breq EXCEPT ![b] = IdRequest("")]
    /\ bcall' = [op |-> op, req |-> req]
    /\ bresp' = resp

Continues(b, op, req, at) ==
    /\ bpc' = [bpc EXCEPT ![b] = at]
    /\ breq' = [breq EXCEPT ![b] = req]
    /\ bcall' = [op |-> op, req |-> req]
    /\ bresp' = bresp

\* as RequestCredentials, without the test of cluster_name
RequestCredentials_NoNameCheck(b, req) ==
    /\ bpc[b] = "idle"
    /\ UNCHANGED <<records, issued>>
    /\ IF req.ClusterId = ""
       THEN Returns(b, "RequestCredentials", req, Plain("InvalidArgument", ""))
       ELSE IF records[req.ClusterId] # NoRecord
       THEN Returns(b, "RequestCredentials", req,
                    ExistingResponse(records[req.ClusterId]))
       ELSE IF req.ApiToken # ""
       THEN Continues(b, "RequestCredentials", req, "rc_approve")
       ELSE Continues(b, "RequestCredentials", req, "rc_pending")

\* as RequestCredentials, with the token tested before the stored status of
\* a PENDING record
RequestCredentials_TokenFirst(b, req) ==
    /\ bpc[b] = "idle"
    /\ UNCHANGED <<records, issued>>
    /\ IF req.ClusterId = "" \/ req.ClusterName = ""
       THEN Returns(b, "RequestCredentials", req, Plain("InvalidArgument", ""))
       ELSE IF records[req.ClusterId].Status = "PENDING" /\ req.ApiToken # ""
       THEN Continues(b, "RequestCredentials", req, "rc_approve")
       ELSE IF records[req.ClusterId] # NoRecord
       THEN Returns(b, "RequestCredentials", req,
                    ExistingResponse(records[req.ClusterId]))
       ELSE IF req.ApiToken # ""
       THEN Continues(b, "RequestCredentials", req, "rc_approve")
       ELSE Continues(b, "RequestCredentials", req, "rc_pending")

\* RequestCredentials up to its return or to the point where it goes on
\* to approveAgent or to storing a pending entry
RequestCredentials(b, req) ==
    /\ bpc[b] = "idle"
    /\ UNCHANGED <<records, issued>>
    /\ IF req.ClusterId = "" \/ req.ClusterName = ""
       THEN Returns(b, "RequestCredentials", req, Plain("InvalidArgument", ""))
       ELSE IF records[req.ClusterId] # NoRecord
       THEN Returns(b, "RequestCredentials", req,
                    ExistingResponse(records[req.ClusterId]))
       ELSE IF req.ApiToken # ""
       THEN Continues(b, "RequestCredentials", req, "rc_approve")
       ELSE Continues(b, "RequestCredentials", req, "rc_pending")

\* the tail of RequestCredentials for a request without a token
RequestCredentialsPending(b) ==
    /\ bpc[b] = "rc_pending"
    /\ records' = [records EXCEPT ![breq[b].ClusterId] = PendingState(breq[b])]
    /\ UNCHANGED issued
    /\ Returns(b, "RequestCredentialsPending", breq[b], PendingApproval)

\* as approveAgent, storing the record before the certificate is generated
approveAgent_StoreFirst(b, certOk) ==
    /\ bpc[b] \in {"rc_approve", "ma_approve"}
    /\ issued < MaxIssued
    /\ issued' = issued + 1
    /\ records' = [records EXCEPT ![breq[b].ClusterId] =
                       ApprovedState(breq[b], issued + 1)]
    /\ Returns(b, "approveAgent", breq[b],
               IF ~certOk
               THEN Plain(IF bpc[b] = "rc_approve" THEN "Internal" ELSE "error", "")
               ELSE IF bpc[b] = "rc_approve"
               THEN ApprovedCredentials("Approved", "",
                                        ApprovedState(breq[b], issued + 1))
               ELSE Plain("ok", ""))

\* approveAgent, called by RequestCredentials or by ManualApprove;
\* certOk: GenerateClientCert returned without error
approveAgent(b, certOk) ==
    /\ bpc[b] \in {"rc_approve", "ma_approve"}
    /\ IF ~certOk
       THEN /\ UNCHANGED <<records, issued>>
            /\ Returns(b, "approveAgent", breq[b],
                       Plain(IF bpc[b] = "rc_approve" THEN "Internal" ELSE "error", ""))
       ELSE /\ issued < MaxIssued
            /\ issued' = issued + 1
            /\ records' = [records EXCEPT ![breq[b].ClusterId] =
                               ApprovedState(breq[b], issued + 1)]
            /\ Returns(b, "approveAgent", breq[b],
                       IF bpc[b] = "rc_approve"
                       THEN ApprovedCredentials("Approved", "",
                                                ApprovedState(breq[b], issued + 1))
                       ELSE Plain("ok", ""))

\* as StatusResponse, attaching the credentials of a record whatever its
\* status
StatusResponse_AlwaysCredentials(agent) ==
    IF agent = NoRecord THEN Plain("Status", "UNKNOWN")
    ELSE ApprovedCredentials("Status", agent.Status, agent)

\* the oakv1.StatusResponse CheckStatus builds from the map entry
StatusResponse(agent) ==
    IF agent = NoRecord THEN Plain("Status", "UNKNOWN")
    ELSE IF agent.Status = "APPROVED"
    THEN ApprovedCredentials("Status", "APPROVED", agent)
    ELSE Plain("Status", agent.Status)

CheckStatus(b, c) ==
    /\ bpc[b] = "idle"
    /\ UNCHANGED <<records, issued>>
    /\ Returns(b, "CheckStatus", IdRequest(c),
               IF c = "" THEN Plain("InvalidArgument", "")
               ELSE StatusResponse(records[c]))

\* as ManualApprove, without the test of the status
ManualApprove_AnyStatus(b, c) ==
    /\ bpc[b] = "idle"
    /\ UNCHANGED <<records, issued>>
    /\ IF records[c] = NoRecord
       THEN Returns(b, "ManualApprove", IdRequest(c), Plain("error", ""))
       ELSE Continues(b, "ManualApprove",
                      [ClusterId |-> c, ClusterName |-> records[c].ClusterName,
                       ApiToken |-> "", AgentVersion |-> records[c].AgentVersion],
                      "ma_approve")

\* ManualApprove up to its call of approveAgent
ManualApprove(b, c) ==
    /\ bpc[b] = "idle"
    /\ UNCHANGED <<records, issued>>
    /\ IF records[c] = NoRecord \/ records[c].Status # "PENDING"
       THEN Returns(b, "ManualApprove", IdRequest(c), Plain("error", ""))
       ELSE Continues(b, "ManualApprove",
                      [ClusterId |-> c, ClusterName |-> records[c].ClusterName,
                       ApiToken |-> "", AgentVersion |-> records[c].AgentVersion],
                      "ma_approve")

\* ManualReject and Revoke: look the record up and overwrite its status
SetStatus(b, op, c, st) ==
    /\ bpc[b] = "idle"
    /\ UNCHANGED issued
    /\ IF records[c] = NoRecord
       THEN /\ UNCHANGED records
            /\ Returns(b, op, IdRequest(c), Plain("error", ""))
       ELSE /\ records' = [records EXCEPT ![c].Status = st]
            /\ Returns(b, op, IdRequest(c), Plain("ok", ""))

ManualReject(b, c) == SetStatus(b, "ManualReject", c, "REJECTED")

\* as Revoke, writing the status without the test for an existing record
Revoke_Upsert(b, c) ==
    /\ bpc[b] = "idle"
    /\ UNCHANGED issued
    /\ records' = [records EXCEPT ![c].Status = "REVOKED"]
    /\ Returns(b, "Revoke", IdRequest(c), Plain("ok", ""))

Revoke(b, c) == SetStatus(b, "Revoke", c, "REVOKED")

\* NewAgentManagementService: an empty map, nobody calling
NoRequests ==
    /\ records = [c \in SessionClusters |-> NoRecord]
    /\ issued = 0
    \* the admin tooling has called nothing
    /\ admin = [pc |-> "idle", todo |-> {}, pending |-> <<>>, seen |-> {},
                agent |-> NoRecord, err |-> FALSE]
    /\ bpc = [b \in Callers |-> "idle"]
    /\ breq = [b \in Callers |-> IdRequest("")]
    /\ bcall = [op |-> "none", req |-> IdRequest("")]
    /\ bresp = NoResponse

BrokerCalls ==
    \/ \E b \in Callers, req \in CredentialsRequest : RequestCredentials(b, req)
    \/ \E b \in Callers : RequestCredentialsPending(b)
    \/ \E b \in Callers, certOk \in BOOLEAN : approveAgent(b, certOk)
    \/ \E b \in Callers, c \in ClusterIds \cup {""} : CheckStatus(b, c)
    \/ \E b \in Callers, c \in ClusterIds : ManualApprove(b, c)
    \/ \E b \in Callers, c \in ClusterIds : ManualReject(b, c)
    \/ \E b \in Callers, c \in ClusterIds : Revoke(b, c)

(***************************************************************************)
(* Values behind references, read results and the lifecycle of Service.    *)
(***************************************************************************)
\* the contents of a Labels map and of an AgentCapabilities message (none)
NoCell == [Labels |-> "", Capabilities |-> ""]

\* an AgentStatusResponse (none: no response)
AgentStatusResponse(st, id, seen, health) ==
    [Status |-> st, AgentId |-> id, LastSeen |-> seen, HealthStatus |-> health]
NoStatus == AgentStatusResponse("none", "", 0, "UNSPECIFIED")

\* NewService(): nothing was read, the health checker is not started, the
\* context of the service is live
NoService ==
    /\ heap = [o \in Objs |-> NoCell]
    /\ ret = [op |-> "none", key |-> "", found |-> FALSE, vals |-> <<>>,
              resp |-> NoStatus]
    /\ lastOp = [op |-> "none", key |-> "", timeout |-> 0, hb |-> NilHeartbeat]
    /\ hpc = "off"
    /\ htimeout = 0
    /\ sctx = FALSE
    /\ spc = "idle"

(***************************************************************************)
(* The registry under direct callers.                                      *)
(***************************************************************************)
InitRegistry ==
    /\ agents = [id \in Ids |-> NoObj]
    /\ info = [o \in Objs |-> ZeroInfo]
    /\ chan = [o \in Objs |-> NilChan]
    /\ mu = [o \in Objs |-> NoTask]
    /\ rmu = NoTask
    /\ now = 0
    /\ nextObj = 0
    /\ nextMsg = 0
    /\ pc = [t \in Tasks |-> IF t \in Procs THEN "idle" ELSE "closed"]
    /\ arg = [t \in Tasks |-> NoArg]
    /\ res = NoRes
    /\ panicked = FALSE
    /\ closeCount = [o \in Objs |-> 0]
    /\ accepted = [o \in Objs |-> <<>>]
    /\ unregDone = {}

\* no stream is open
NoStreams ==
    /\ hid = [st \in Streams |-> ""]
    /\ hres = [st \in Streams |-> "none"]
    /\ ipc = [st \in Streams |-> "off"]
    /\ opc = [st \in Streams |-> "off"]
    /\ inHand = [st \in Streams |-> NoMsg]
    /\ errChan = [st \in Streams |-> <<>>]
    /\ ctxDone = [st \in Streams |-> FALSE]
    /\ wire = [st \in Streams |-> <<>>]
    /\ writers = [st \in Streams |-> {}]
    /\ firstIn = [st \in Streams |-> "none"]
    /\ sawReg = [st \in Streams |-> FALSE]
    \* no handshake of the connection of a stream is on record
    /\ peerCert = [st \in Streams |-> "unknown"]

DirectCalls ==
    \/ \E p \in Procs, id \in DirectIds, c \in 0..MaxInjectCap : DirectRegister(p, id, c)
    \/ \E p \in Procs, id \in DirectIds : UnregisterLock(p, id)
    \/ \E p \in Procs : UnregisterMiss(p)
    \/ \E p \in Procs : UnregisterClose(p)
    \/ \E p \in Procs : UnregisterDelete(p)
    \/ \E p \in Procs, id \in DirectIds, k \in SendKinds : SendLookup(p, id, k)
    \/ \E p \in Procs : SendAcquire(p)
    \/ \E p \in Procs : SendEnqueue(p)

NextRegistry == DirectCalls /\ UNCHANGED <<streamVars, brokerVars, peerVars, svcVars>>

\* direct callers only: no stream is open, no credential request is made
InitDirect == InitRegistry /\ NoStreams /\ NoRequests /\ NoService

SpecRegistry == InitDirect /\ [][NextRegistry]_vars


(***************************************************************************)
(* Claims about the registry (checked under SpecRegistry).                 *)
(***************************************************************************)
\* C1: whatever the interleaving of Unregister with SendCommand or
\* SendConfigUpdate on one session, nothing is ever enqueued on (or closes)
\* a closed queue, so no panic, and every send that starts after the
\* Unregister has returned returns AgentNotFound or AgentDisconnected.
C1_SendVersusUnregister ==
    /\ ~panicked
    /\ res.after => res.err \in {ErrAgentNotFound, ErrAgentDisconnected}
    /\ \A p \in Procs :
         (pc[p] \in {"send_found", "send_locked"} /\ arg[p].after)
            => info[arg[p].obj].closed

\* a send that looked the session up before an Unregister closed it is
\* still in flight, and a send started after that Unregister returned has
\* finished
C1_Witness ==
    \E p \in Procs :
        /\ pc[p] = "send_found"
        /\ info[arg[p].obj].closed
        /\ arg[p].id \in unregDone
        /\ res.after /\ res.id = arg[p].id /\ res.err = ErrAgentNotFound

\* C2: for any number of Unregister calls on one id, sequential or
\* concurrent, the queue is closed at most once, nothing panics, and once a
\* call has returned the session is absent (Get finds nothing).
C2_UnregisterIdempotent ==
    /\ \A o \in Objs : closeCount[o] <= 1
    /\ ~panicked
    /\ \A id \in unregDone : ~Get(id).found

\* a further Unregister of an id is running after an earlier one returned
\* and closed the queue
C2_Witness ==
    \E p \in Procs :
        /\ pc[p] = "unreg_locked"
        /\ arg[p].id \in unregDone
        /\ \E o \in Objs : closeCount[o] = 1 /\ info[o].agentID = arg[p].id

\* C3: a send returns exactly one of success (message appended),
\* AgentNotFound (id not registered), AgentDisconnected (queue closed),
\* SendChannelFull (queue at capacity); a failure leaves every queue as it
\* was, and no queue ever holds more than its capacity.
C3_SendOutcome ==
    [][/\ \A p \in Procs :
            (pc[p] = "send_locked" /\ pc'[p] = "idle") =>
                LET o == arg[p].obj
                IN /\ res'.id = arg[p].id
                   /\ res'.err \in {Ok, ErrAgentDisconnected, ErrSendChannelFull}
                   /\ (res'.err = ErrAgentDisconnected) <=> info[o].closed
                   /\ (res'.err = ErrSendChannelFull) <=>
                         (~info[o].closed /\ Len(chan[o].buf) >= chan[o].cap)
                   /\ (res'.err = Ok) =>
                         chan' = [chan EXCEPT ![o].buf = Append(@, arg[p].msg)]
                   /\ (res'.err # Ok) => chan' = chan
       /\ (nextMsg' # nextMsg /\ pc' = pc) =>
            /\ res'.err = ErrAgentNotFound
            /\ agents[res'.id] = NoObj
            /\ chan' = chan
       /\ (nextMsg' # nextMsg /\ pc' # pc) =>
            \E p \in Procs :
                /\ pc'[p] = "send_found"
                /\ agents[arg'[p].id] = arg'[p].obj
                /\ arg'[p].obj # NoObj
       /\ \A x \in Objs : Len(chan'[x].buf) <= chan'[x].cap
      ]_vars

\* a send was refused by a full queue
C3_Witness ==
    /\ res.err = ErrSendChannelFull
    /\ \E o \in Objs : Len(chan[o].buf) = chan[o].cap /\ chan[o].cap > 0

(***************************************************************************)
(* Service.AgentStream: the handler of one stream and its two goroutines.  *)
(***************************************************************************)
\* payload kinds of an AgentMessage
AgentKinds == {"Registration", "Heartbeat", "Metrics", "Event", "CommandResult"}
\* what ends a stream.Recv(): io.EOF or another error
RecvErrors == {"EOF", "recv_error"}

\* the RegistrationAck the handler writes first
AckMessage(id) == [id |-> 0, kind |-> "RegistrationAck", agentId |-> id]

\* as ValidFirst, without the test of the payload type
ValidFirst_AnyPayload(m) == m \notin {"EOF", "recv_error"}

\* AgentStream: err == nil after the first Recv, and the payload is a
\* Registration
ValidFirst(m) == m = "Registration"

\* as AgentStreamOrder, with the goroutines started before the ack is sent
AgentStreamOrder_SpawnFirst == <<"register", "spawn", "send_ack", "wait">>

\* AgentStream after the first Recv: Register (and defer Unregister), send
\* the ack, start the two goroutines, wait on errChan
AgentStreamOrder == <<"register", "send_ack", "spawn", "wait">>

After(stage) ==
    LET i == CHOOSE k \in 1..Len(AgentStreamOrder) : AgentStreamOrder[k] = stage
    IN AgentStreamOrder[i + 1]

\* as OnAckFailure, with the Unregister not deferred yet
OnAckFailure_NoDefer == "returned"

\* AgentStream: "return err" after a failed Send(ack) runs the deferred
\* Unregister
OnAckFailure == "deferred"

\* AgentStream: if err != nil && err != io.EOF { return err }; return nil
StreamResult(err) == IF err = "EOF" THEN "nil" ELSE err

\* as ChanRecv, taking the newest message
ChanRecv_Newest(ch) ==
    IF ch.buf # <<>>
        THEN [ready |-> TRUE, ok |-> TRUE, msg |-> ch.buf[Len(ch.buf)],
              ch |-> [ch EXCEPT !.buf = SubSeq(@, 1, Len(@) - 1)]]
        ELSE [ready |-> ch.closed, ok |-> FALSE, msg |-> NoMsg, ch |-> ch]

\* msg, ok := <-ch : the oldest buffered message; on a closed and drained
\* channel ok is false; otherwise the receive is not ready
ChanRecv(ch) ==
    IF ch.buf # <<>>
        THEN [ready |-> TRUE, ok |-> TRUE, msg |-> Head(ch.buf),
              ch |-> [ch EXCEPT !.buf = Tail(@)]]
        ELSE [ready |-> ch.closed, ok |-> FALSE, msg |-> NoMsg, ch |-> ch]

\* as UpdateHeartbeatInfo, leaving ActiveJobs as it was
UpdateHeartbeatInfo_NoJobs(inf, hb) ==
    IF hb.nil
        THEN [inf EXCEPT !.lastHeartbeat = now]
        ELSE [inf EXCEPT !.lastHeartbeat = now, !.status = hb.status]

\* as UpdateHeartbeatInfo, leaving LastHeartbeat as it was
UpdateHeartbeatInfo_NoRefresh(inf, hb) ==
    IF hb.nil
        THEN inf
        ELSE [inf EXCEPT !.activeJobs = hb.activeJobs, !.status = hb.status]

\* Registry.UpdateHeartbeat, the fields it writes
UpdateHeartbeatInfo(inf, hb) ==
    IF hb.nil
        THEN [inf EXCEPT !.lastHeartbeat = now]
        ELSE [inf EXCEPT !.lastHeartbeat = now, !.activeJobs = hb.activeJobs,
                         !.status = hb.status]

\* Registry.UpdateHeartbeat: the whole body runs under r.mu.Lock()
UpdateHeartbeat(id, hb) ==
    /\ rmu = NoTask
    /\ info' = IF agents[id] = NoObj
                  THEN info
                  ELSE [info EXCEPT ![agents[id]] = UpdateHeartbeatInfo(@, hb)]
    /\ UNCHANGED <<agents, chan, mu, rmu, now, nextObj, nextMsg>>
    /\ UNCHANGED histVars

\* as Returned, with a context that outlives the handler
Returned_NoCancel(st) == ctxDone

\* the handler returns: gRPC cancels the context of the stream
Returned(st) == [ctxDone EXCEPT ![st] = TRUE]

\* msg, err := stream.Recv(); the first message must be a Registration,
\* else return status.Error(codes.InvalidArgument, ...)
RecvFirst(st, m) ==
    /\ pc[st] = "recv_first"
    /\ ctxDone[st] => m = "recv_error"
    /\ firstIn' = [firstIn EXCEPT ![st] = m]
    /\ IF ValidFirst(m)
         THEN /\ pc' = [pc EXCEPT ![st] = "register"]
              /\ UNCHANGED <<hres, ctxDone>>
         ELSE /\ pc' = [pc EXCEPT ![st] = "returned"]
              /\ hres' = [hres EXCEPT ![st] = "InvalidArgument"]
              /\ ctxDone' = Returned(st)
    /\ UNCHANGED <<regVars, arg, res, histVars>>
    /\ UNCHANGED <<hid, ipc, opc, inHand, errChan, wire, writers, sawReg>>

\* agentID := generateMessageID(); s.registry.Register(agentID, agentInfo);
\* defer s.registry.Unregister(agentID)
HandlerRegister(st) ==
    /\ pc[st] = "register"
    /\ Register(st, generateMessageID(st), InfoOf(st), NilChan)
    /\ hid' = [hid EXCEPT ![st] = generateMessageID(st)]
    /\ pc' = [pc EXCEPT ![st] = After("register")]
    /\ UNCHANGED <<nextObj, arg, res>>
    /\ UNCHANGED <<hres, ipc, opc, inHand, errChan, ctxDone, wire, writers,
                   firstIn, sawReg>>

\* stream.Send(ack) is entered
HandlerAckBegin(st) ==
    /\ pc[st] = "send_ack"
    /\ writers' = [writers EXCEPT ![st] = @ \cup {"handler"}]
    /\ pc' = [pc EXCEPT ![st] = "acking"]
    /\ UNCHANGED <<regVars, arg, res, histVars>>
    /\ UNCHANGED <<hid, hres, ipc, opc, inHand, errChan, ctxDone, wire,
                   firstIn, sawReg>>

\* stream.Send(ack) returns: nil, or an error and the handler returns it
HandlerAckEnd(st, ok) ==
    /\ pc[st] = "acking"
    /\ ok => ~ctxDone[st]
    /\ writers' = [writers EXCEPT ![st] = @ \ {"handler"}]
    /\ IF ok
         THEN /\ wire' = [wire EXCEPT ![st] = Append(@, AckMessage(hid[st]))]
              /\ pc' = [pc EXCEPT ![st] = After("send_ack")]
              /\ UNCHANGED hres
         ELSE /\ pc' = [pc EXCEPT ![st] = OnAckFailure]
              /\ hres' = [hres EXCEPT ![st] = "send_error"]
              /\ UNCHANGED wire
    /\ UNCHANGED <<regVars, arg, res, histVars>>
    /\ UNCHANGED <<hid, ipc, opc, inHand, errChan, ctxDone, firstIn, sawReg>>

\* errChan := make(chan error, 2); go receiveMessages; go sendMessages
HandlerSpawn(st) ==
    /\ pc[st] = "spawn"
    /\ ipc' = [ipc EXCEPT ![st] = "recv"]
    /\ opc' = [opc EXCEPT ![st] = "select"]
    /\ pc' = [pc EXCEPT ![st] = After("spawn")]
    /\ UNCHANGED <<regVars, arg, res, histVars>>
    /\ UNCHANGED <<hid, hres, inHand, errChan, ctxDone, wire, writers,
                   firstIn, sawReg>>

\* err = <-errChan: the result of whichever goroutine finished first; the
\* handler returns and its deferred Unregister starts
HandlerWait(st) ==
    /\ pc[st] = "wait"
    /\ errChan[st] # <<>>
    /\ hres' = [hres EXCEPT ![st] = StreamResult(Head(errChan[st]))]
    /\ errChan' = [errChan EXCEPT ![st] = Tail(@)]
    /\ pc' = [pc EXCEPT ![st] = "deferred"]
    /\ UNCHANGED <<regVars, arg, res, histVars>>
    /\ UNCHANGED <<hid, ipc, opc, inHand, ctxDone, wire, writers, firstIn,
                   sawReg>>

\* the deferred s.registry.Unregister(agentID), step by step
HandlerUnregisterLock(st) ==
    /\ UnregisterLock(st, hid[st])
    /\ UNCHANGED streamVars

HandlerUnregisterClose(st) ==
    /\ UnregisterClose(st)
    /\ UNCHANGED streamVars

\* ... after which AgentStream has returned.  (Nobody else unregisters the
\* id of a stream, so this Unregister always finds the entry.)
HandlerUnregisterDelete(st) ==
    /\ UnregisterDelete(st)
    /\ ctxDone' = Returned(st)
    /\ UNCHANGED <<hid, hres, ipc, opc, inHand, errChan, wire, writers,
                   firstIn, sawReg>>

\* receiveMessages: stream.Recv() returned a Heartbeat; handleHeartbeat:
\* s.registry.UpdateHeartbeat(agentID, heartbeat)
InboundHeartbeat(st, hb) ==
    /\ ipc[st] = "recv"
    /\ ~ctxDone[st]
    /\ UpdateHeartbeat(hid[st], hb)
    /\ UNCHANGED taskVars
    /\ UNCHANGED streamVars

\* receiveMessages: stream.Recv() returned a Metrics, Event or CommandResult
\* payload (handleMetrics, handleEvent, handleCommandResult only log) or a
\* payload of no handled type, such as a Registration (default: a warning)
InboundRecvOther(st, m) ==
    /\ ipc[st] = "recv"
    /\ ~ctxDone[st]
    /\ sawReg' = [sawReg EXCEPT ![st] = @ \/ m = "Registration"]
    /\ UNCHANGED <<regVars, taskVars, histVars>>
    /\ UNCHANGED <<hid, hres, ipc, opc, inHand, errChan, ctxDone, wire,
                   writers, firstIn>>

\* receiveMessages: stream.Recv() failed (io.EOF, or another error, which
\* is all a cancelled stream gives); receiveMessages returns it, and the
\* goroutine holds it as the value it is about to send to errChan
InboundEnd(st, e) ==
    /\ ipc[st] = "recv"
    /\ ctxDone[st] => e = "recv_error"
    /\ ipc' = [ipc EXCEPT ![st] = e]
    /\ UNCHANGED <<regVars, taskVars, histVars>>
    /\ UNCHANGED <<hid, hres, opc, inHand, errChan, ctxDone, wire, writers,
                   firstIn, sawReg>>

\* go func() { defer s.wg.Done(); errChan <- s.receiveMessages(...) }():
\* the send of the value receiveMessages returned (errChan has room for
\* both goroutines), and the goroutine ends
InboundReport(st) ==
    /\ ipc[st] \in RecvErrors
    /\ errChan' = [errChan EXCEPT ![st] = Append(@, ipc[st])]
    /\ ipc' = [ipc EXCEPT ![st] = "done"]
    /\ UNCHANGED <<regVars, taskVars, histVars>>
    /\ UNCHANGED <<hid, hres, opc, inHand, ctxDone, wire, writers, firstIn,
                   sawReg>>

\* as OutboundDequeue, with the message received and not sent
OutboundDequeue_Drop(st) ==
    /\ opc[st] = "select"
    /\ LET r == ChanRecv(chan[InfoOf(st)])
       IN /\ r.ready /\ r.ok
          /\ chan' = [chan EXCEPT ![InfoOf(st)] = r.ch]
    /\ UNCHANGED <<agents, info, mu, rmu, now, nextObj, nextMsg>>
    /\ UNCHANGED <<taskVars, histVars, streamVars>>

\* sendMessages: case msg, ok := <-agentInfo.SendChan with ok true;
\* stream.Send(msg) is entered
OutboundDequeue(st) ==
    /\ opc[st] = "select"
    /\ LET r == ChanRecv(chan[InfoOf(st)])
       IN /\ r.ready /\ r.ok
          /\ chan' = [chan EXCEPT ![InfoOf(st)] = r.ch]
          /\ inHand' = [inHand EXCEPT ![st] = r.msg]
    /\ writers' = [writers EXCEPT ![st] = @ \cup {"outbound"}]
    /\ opc' = [opc EXCEPT ![st] = "sending"]
    /\ UNCHANGED <<agents, info, mu, rmu, now, nextObj, nextMsg>>
    /\ UNCHANGED <<taskVars, histVars>>
    /\ UNCHANGED <<hid, hres, ipc, errChan, ctxDone, wire, firstIn, sawReg>>

\* sendMessages: stream.Send(msg) returns: nil and the loop goes on, or an
\* error and sendMessages returns it
OutboundSendEnd(st, ok) ==
    /\ opc[st] = "sending"
    /\ ok => ~ctxDone[st]
    /\ writers' = [writers EXCEPT ![st] = @ \ {"outbound"}]
    /\ inHand' = [inHand EXCEPT ![st] = NoMsg]
    /\ IF ok
         THEN /\ wire' = [wire EXCEPT ![st] = Append(@, inHand[st])]
              /\ opc' = [opc EXCEPT ![st] = "select"]
         ELSE /\ opc' = [opc EXCEPT ![st] = "send_error"]
              /\ UNCHANGED wire
    /\ UNCHANGED <<regVars, taskVars, histVars>>
    /\ UNCHANGED <<hid, hres, ipc, errChan, ctxDone, firstIn, sawReg>>

\* sendMessages: the receive gives ok false (channel closed and drained):
\* return io.EOF
OutboundClosed(st) ==
    /\ opc[st] = "select"
    /\ LET r == ChanRecv(chan[InfoOf(st)]) IN r.ready /\ ~r.ok
    /\ opc' = [opc EXCEPT ![st] = "EOF"]
    /\ UNCHANGED <<regVars, taskVars, histVars>>
    /\ UNCHANGED <<hid, hres, ipc, inHand, errChan, ctxDone, wire, writers,
                   firstIn, sawReg>>

\* sendMessages: case <-stream.Context().Done(): return stream.Context().Err()
OutboundCancelled(st) ==
    /\ opc[st] = "select"
    /\ ctxDone[st]
    /\ opc' = [opc EXCEPT ![st] = "ctx_error"]
    /\ UNCHANGED <<regVars, taskVars, histVars>>
    /\ UNCHANGED <<hid, hres, ipc, inHand, errChan, ctxDone, wire, writers,
                   firstIn, sawReg>>

\* go func() { defer s.wg.Done(); errChan <- s.sendMessages(...) }(): the
\* send of the value sendMessages returned, and the goroutine ends
OutboundReport(st) ==
    /\ opc[st] \in {"EOF", "send_error", "ctx_error"}
    /\ errChan' = [errChan EXCEPT ![st] = Append(@, opc[st])]
    /\ opc' = [opc EXCEPT ![st] = "done"]
    /\ UNCHANGED <<regVars, taskVars, histVars>>
    /\ UNCHANGED <<hid, hres, ipc, inHand, ctxDone, wire, writers, firstIn,
                   sawReg>>

\* the peer goes away or cancels the call: the context of the stream is
\* cancelled
StreamCancel(st) ==
    /\ pc[st] \notin {"closed", "returned"}
    /\ ~ctxDone[st]
    /\ ctxDone' = [ctxDone EXCEPT ![st] = TRUE]
    /\ UNCHANGED <<regVars, taskVars, histVars>>
    /\ UNCHANGED <<hid, hres, ipc, opc, inHand, errChan, wire, writers,
                   firstIn, sawReg>>

(***************************************************************************)
(* The service: open streams, and API callers sending to their sessions.   *)
(***************************************************************************)
InitService(open) ==
    /\ agents = [id \in Ids |-> NoObj]
    /\ info = [o \in Objs |-> ZeroInfo]
    /\ chan = [o \in Objs |-> NilChan]
    /\ mu = [o \in Objs |-> NoTask]
    /\ rmu = NoTask
    /\ now = 0
    /\ nextObj = 0
    /\ nextMsg = 0
    /\ pc = [t \in Tasks |-> IF t \in Procs THEN "idle"
                           ELSE IF t \in open THEN "recv_first" ELSE "closed"]
    /\ arg = [t \in Tasks |-> NoArg]
    /\ res = NoRes
    /\ panicked = FALSE
    /\ closeCount = [o \in Objs |-> 0]
    /\ accepted = [o \in Objs |-> <<>>]
    /\ unregDone = {}
    /\ NoStreams
    /\ NoRequests
    /\ NoService

ApiSends ==
    \/ \E p \in Procs, id \in StreamIds, k \in SendKinds : SendLookup(p, id, k)
    \/ \E p \in Procs : SendAcquire(p)
    \/ \E p \in Procs : SendEnqueue(p)

SessionSteps ==
    \/ \E st \in Streams, m \in AgentKinds \cup RecvErrors : RecvFirst(st, m)
    \/ \E st \in Streams : HandlerRegister(st)
    \/ \E st \in Streams : HandlerAckBegin(st)
    \/ \E st \in Streams, ok \in BOOLEAN : HandlerAckEnd(st, ok)
    \/ \E st \in Streams : HandlerSpawn(st)
    \/ \E st \in Streams : HandlerWait(st)
    \/ \E st \in Streams : HandlerUnregisterLock(st)
    \/ \E st \in Streams : HandlerUnregisterClose(st)
    \/ \E st \in Streams : HandlerUnregisterDelete(st)
    \/ \E st \in Streams, hb \in Heartbeats : InboundHeartbeat(st, hb)
    \/ \E st \in Streams, m \in AgentKinds \ {"Heartbeat"} : InboundRecvOther(st, m)
    \/ \E st \in Streams, e \in RecvErrors : InboundEnd(st, e)
    \/ \E st \in Streams : InboundReport(st)
    \/ \E st \in Streams : OutboundReport(st)
    \/ \E st \in Streams : OutboundClosed(st)
    \/ \E st \in Streams : OutboundCancelled(st)
    \/ \E st \in Streams : StreamCancel(st)

OutboundWrites ==
    \/ \E st \in Streams : OutboundDequeue(st)
    \/ \E st \in Streams, ok \in BOOLEAN : OutboundSendEnd(st, ok)

NextStream ==
    /\ \/ ApiSends /\ UNCHANGED streamVars
       \/ SessionSteps
       \/ OutboundWrites
    /\ UNCHANGED <<brokerVars, peerVars, svcVars>>

\* one stream is open, and API callers send to its session
InitStream == InitService({"s1"})

SpecStream == InitStream /\ [][NextStream]_vars

\* several streams are open at once; no API caller sends
InitSessions == InitService(Streams)

NextSessions == SessionSteps /\ UNCHANGED <<brokerVars, peerVars, svcVars>>

SpecSessions == InitSessions /\ [][NextSessions]_vars

(***************************************************************************)
(* Claims about the streaming service.                                     *)
(***************************************************************************)
\* the Command / ConfigUpdate messages written to a stream so far
QueueWritten(st) ==
    SelectSeq(wire[st], LAMBDA m : m.kind # "RegistrationAck")

\* C4 (SpecStream): the messages a session's queue accepted are taken by
\* the outbound loop and written to the stream in the order they were
\* enqueued, none twice and none out of order.
C4_FifoDelivery ==
    LET IsPrefix(a, b) == Len(a) <= Len(b) /\ SubSeq(b, 1, Len(a)) = a
        \* what was written, followed by the message sendMessages holds
        Dequeued(st) ==
            QueueWritten(st) \o
                (IF opc[st] = "sending" THEN <<inHand[st]>> ELSE <<>>)
    IN \A st \in Streams :
        /\ IsPrefix(Dequeued(st), accepted[InfoOf(st)])
        /\ \A i, j \in 1..Len(Dequeued(st)) :
              i # j => Dequeued(st)[i] # Dequeued(st)[j]

\* two messages, enqueued while both were buffered, have been written
C4_Witness ==
    \E st \in Streams :
        /\ Len(QueueWritten(st)) = 2
        /\ accepted[InfoOf(st)] = QueueWritten(st)
        /\ opc[st] = "select"

\* C5 (SpecSessions): when the first message of a stream is not a
\* Registration, or the first receive fails, AgentStream returns
\* InvalidArgument and the registry is as it was.
C5_FirstMessageMustRegister ==
    [][\A st \in Streams :
        (firstIn[st] = "none" /\ firstIn'[st] \notin {"none", "Registration"}) =>
            /\ pc'[st] = "returned"
            /\ hres'[st] = "InvalidArgument"
            /\ hid'[st] = ""
            /\ agents' = agents /\ info' = info /\ chan' = chan
            /\ Count' = Count
      ]_vars

\* a stream whose first message was a Heartbeat was refused while another
\* session was registered
C5_Witness ==
    \E st \in Streams :
        /\ firstIn[st] = "Heartbeat"
        /\ hres[st] = "InvalidArgument"
        /\ Count = 1

\* C6 (SpecStream), the claim as stated: when the deferred Unregister runs
\* and when AgentStream has returned, neither goroutine of the session is
\* still running.
C6_LoopsJoinedBeforeUnregister ==
    \A st \in Streams :
        (pc[st] \in {"unreg_locked", "unreg_closed", "returned"} /\ hid[st] # "")
            => (ipc[st] \in {"off", "done"} /\ opc[st] \in {"off", "done"})

\* C7 (SpecStream): once AgentStream has returned after registering, the
\* session is out of the registry and its queue is closed.
C7_ReturnedMeansUnregistered ==
    \A st \in Streams :
        (pc[st] = "returned" /\ hid[st] # "") =>
            /\ agents[hid[st]] = NoObj
            /\ info[InfoOf(st)].closed
            /\ chan[InfoOf(st)].closed

\* AgentStream returned the send error of the outbound loop, with a message
\* left in the queue
C7_Witness ==
    \E st \in Streams :
        /\ pc[st] = "returned"
        /\ wire[st] # <<>>
        /\ hres[st] = "send_error"
        /\ chan[InfoOf(st)].buf # <<>>

\* C8 (SpecSessions): a stream between registration and return has exactly
\* one registry entry, under the id its ack carried; no inbound message
\* adds an entry or changes the key; two such streams have two entries.
C8_OneEntryPerStream ==
    \* the handler has registered and its deferred Unregister has not yet
    \* removed the entry
    LET Active(st) ==
            pc[st] \in {"send_ack", "acking", "spawn", "wait", "deferred",
                        "unreg_locked", "unreg_closed"}
    IN
    /\ \A st \in Streams :
         Active(st) =>
            /\ agents[hid[st]] = InfoOf(st)
            /\ {id \in Ids : agents[id] = InfoOf(st)} = {hid[st]}
            /\ info[InfoOf(st)].agentID = hid[st]
            /\ wire[st] # <<>> => wire[st] = <<AckMessage(hid[st])>>
    /\ \A st1, st2 \in Streams :
         (st1 # st2 /\ Active(st1) /\ Active(st2)) => hid[st1] # hid[st2]
    /\ Count = Cardinality({st \in Streams : Active(st)})

\* two streams are registered; the inbound loop of one was handed a
\* Registration again and that of the other a Heartbeat
C8_Witness ==
    \E st1, st2 \in Streams :
        /\ st1 # st2
        /\ pc[st1] = "wait" /\ pc[st2] = "wait"
        /\ sawReg[st1]
        /\ info[InfoOf(st2)].status = "HEALTHY"

\* C9 (SpecStream): never two goroutines inside stream.Send of one stream:
\* the handler writes the ack before the outbound loop exists, and the
\* outbound loop is the only writer afterwards.
C9_SingleWriter ==
    \A st \in Streams :
        /\ Cardinality(writers[st]) <= 1
        /\ "handler" \in writers[st] => opc[st] = "off"
        /\ opc[st] # "off" => (wire[st] # <<>> /\ pc[st] \notin {"send_ack", "acking"})

\* the outbound loop is writing a message after the ack went out
C9_Witness ==
    \E st \in Streams :
        /\ writers[st] = {"outbound"}
        /\ wire[st] = <<AckMessage(hid[st])>>

(***************************************************************************)
(* The credential service under concurrent callers.                        *)
(***************************************************************************)
NextBroker ==
    BrokerCalls
    /\ UNCHANGED <<regVars, taskVars, histVars, streamVars, svcVars, peerVars>>

\* the registry is empty and stays so
InitBroker == InitRegistry /\ NoStreams /\ NoRequests /\ NoService

SpecBroker == InitBroker /\ [][NextBroker]_vars

\* the step is a RequestCredentials call for cluster c, made while the
\* record of c is APPROVED
CallOnApproved(c) ==
    /\ bcall'.op = "RequestCredentials"
    /\ bcall'.req.ClusterId = c
    /\ records[c].Status = "APPROVED"

\* the call returned the identity of the stored record, issued nothing
\* and changed no record
StoredIdentityReturned(c) ==
    /\ bresp'.kind = "Approved"
    /\ bresp'.AgentId = records[c].AgentID
    /\ bresp'.AgentSecret = records[c].AgentSecret
    /\ bresp'.ClientCertPem = records[c].ClientCertPEM
    /\ bresp'.ClientKeyPem = records[c].ClientKeyPEM
    /\ issued' = issued
    /\ records' = records

\* C10 (SpecBroker), the claim as stated: for a cluster whose record is
\* APPROVED, every RequestCredentials call, whatever its token and
\* metadata, returns Approved with the stored identity, issues no identity
\* and leaves the record unchanged.
C10_EveryCallReturnsStored ==
    [][\A c \in ClusterIds : CallOnApproved(c) => StoredIdentityReturned(c)]_vars

\* C10 (SpecBroker), amended: for a cluster whose record is APPROVED, every
\* RequestCredentials call with a non-empty cluster_name returns Approved
\* with the stored identity, issues no identity and leaves the record
\* unchanged; a call with an empty cluster_name returns InvalidArgument,
\* and also changes nothing.
C10_ApprovedIsStable ==
    [][\A c \in ClusterIds :
          CallOnApproved(c) =>
             IF bcall'.req.ClusterName # ""
             THEN StoredIdentityReturned(c)
             ELSE /\ bresp' = Plain("InvalidArgument", "")
                  /\ issued' = issued
                  /\ records' = records
      ]_vars

\* a call carrying a token, another name and another version than the
\* record's was answered with the record's identity
C10_Witness ==
    \E c \in ClusterIds :
        /\ bcall.op = "RequestCredentials"
        /\ bcall.req.ClusterId = c
        /\ bcall.req.ApiToken # ""
        /\ bcall.req.AgentVersion # records[c].AgentVersion
        /\ bcall.req.ClusterName \notin {"", records[c].ClusterName}
        /\ records[c].Status = "APPROVED"
        /\ bresp = ApprovedCredentials("Approved", "", records[c])
        /\ bresp.ClientKeyPem # 0

\* the record of c is REJECTED or REVOKED
Terminal(agent) == agent.Status \in {"REJECTED", "REVOKED"}

\* the step is a RequestCredentials call for cluster c that passes the
\* validation of its cluster_id and cluster_name
ValidCallFor(c) ==
    /\ bcall'.op = "RequestCredentials"
    /\ bcall'.req.ClusterId = c
    /\ bcall'.req.ClusterName # ""

\* C11 (SpecBroker), the claim as stated: once the record of a cluster is
\* REJECTED or REVOKED it is never PENDING or APPROVED afterwards, and every
\* later RequestCredentials for the cluster returns Rejected and leaves the
\* record unchanged.
C11_TerminalStatuses ==
    [][\A c \in ClusterIds :
          Terminal(records[c]) =>
             /\ Terminal(records'[c])
             /\ ValidCallFor(c) => (bresp'.kind = "Rejected" /\ records' = records)
      ]_vars

\* the step is the approveAgent of a ManualApprove of cluster c, returning
\* without error
ManualApproveDone(c) ==
    \E b \in Callers :
        /\ bpc[b] = "ma_approve" /\ bpc'[b] = "idle"
        /\ breq[b].ClusterId = c
        /\ bresp'.kind = "ok"

\* C12 (SpecBroker), the claim as stated: a PENDING record becomes APPROVED
\* by a RequestCredentials call for the cluster that carries an api_token,
\* and by a ManualApprove call for the cluster.
C12_TokenOrManualApproves ==
    [][\A c \in ClusterIds :
          /\ (records[c].Status = "PENDING" /\ ValidCallFor(c)
                 /\ bcall'.req.ApiToken # "") => records'[c].Status = "APPROVED"
          /\ ManualApproveDone(c) => records'[c].Status = "APPROVED"
      ]_vars

\* C12 (SpecBroker), amended: a PENDING record becomes APPROVED by a
\* ManualApprove call for the cluster; a RequestCredentials call made while
\* the record is PENDING returns Pending and leaves the record PENDING,
\* with or without an api_token (the token approves only a cluster that has
\* no record).
C12_ManualApproveIsTheTrigger ==
    [][\A c \in ClusterIds :
          /\ (records[c].Status = "PENDING" /\ ValidCallFor(c)) =>
                 /\ bresp' = PendingApproval
                 /\ records' = records
                 /\ issued' = issued
          /\ ManualApproveDone(c) =>
                 /\ records'[c].Status = "APPROVED"
                 /\ records'[c].AgentID = issued'
                 /\ issued' = issued + 1
      ]_vars

\* a call carrying a token was answered Pending, the record still PENDING
C12_Witness ==
    \E c \in ClusterIds :
        /\ bcall.op = "RequestCredentials"
        /\ bcall.req.ClusterId = c
        /\ bcall.req.ApiToken # ""
        /\ bresp = PendingApproval
        /\ records[c].Status = "PENDING"

\* C13 (SpecBroker): ManualApprove(c) goes on to approve only when the record
\* of c is PENDING; when it succeeds the record is APPROVED with an identity
\* issued by this call, and CheckStatus(c) returns APPROVED with
\* credentials; when c has no record or the record is not PENDING it
\* returns an error and no record changes.
C13_ManualApprove ==
    \* the step is a ManualApprove call for cluster c, up to its return or
    \* to its call of approveAgent
    [][LET ManualApproveCalled(c) ==
               bcall'.op = "ManualApprove" /\ bcall'.req.ClusterId = c
       IN \A c \in ClusterIds :
          /\ (ManualApproveCalled(c) /\ records[c].Status # "PENDING") =>
                 /\ bresp' = Plain("error", "")
                 /\ \A b \in Callers : bpc'[b] = "ma_approve" => bpc[b] = "ma_approve"
                 /\ records' = records
                 /\ issued' = issued
          /\ (ManualApproveCalled(c) /\ records[c].Status = "PENDING") =>
                 /\ \E b \in Callers : bpc[b] = "idle" /\ bpc'[b] = "ma_approve"
                 /\ records' = records
          /\ ManualApproveDone(c) =>
                 /\ records'[c].Status = "APPROVED"
                 /\ records'[c].AgentID = issued + 1
                 /\ issued' = issued + 1
                 /\ StatusResponse(records'[c]).Status = "APPROVED"
                 /\ StatusResponse(records'[c]).AgentId = issued + 1
                 /\ StatusResponse(records'[c]).ClientCertPem # 0
                 /\ StatusResponse(records'[c]).ClientKeyPem # 0
      ]_vars

\* a ManualApprove has returned without error: the record is APPROVED and
\* holds the identity issued last
C13_Witness ==
    \E c \in ClusterIds :
        /\ bcall.op = "approveAgent"
        /\ bcall.req.ClusterId = c
        /\ bresp = Plain("ok", "")
        /\ records[c].Status = "APPROVED"
        /\ records[c].AgentID = issued

\* C14 (SpecBroker), the claim as stated: the status of a record becomes
\* REJECTED only by a ManualReject applied to a PENDING record; an APPROVED
\* or REVOKED record is never changed to REJECTED.
C14_RejectOnlyFromPending ==
    [][\A c \in ClusterIds :
          (records'[c].Status = "REJECTED" /\ records[c].Status # "REJECTED") =>
              (bcall'.op = "ManualReject" /\ records[c].Status = "PENDING")
      ]_vars

\* C15 (SpecBroker): Revoke(c) sets the status of an existing record of c to
\* REVOKED whatever it was and changes nothing else; on a REVOKED record
\* it changes nothing; on a cluster without a record it returns an error
\* and creates no record.
C15_Revoke ==
    [][\A c \in ClusterIds :
          (bcall'.op = "Revoke" /\ bcall'.req.ClusterId = c) =>
             /\ issued' = issued
             /\ records[c] # NoRecord =>
                   /\ bresp' = Plain("ok", "")
                   /\ records' = [records EXCEPT ![c].Status = "REVOKED"]
             /\ records[c].Status = "REVOKED" => records' = records
             /\ records[c] = NoRecord =>
                   /\ bresp' = Plain("error", "")
                   /\ records' = records
      ]_vars

\* an approved cluster has been revoked: the record keeps its identity
C15_Witness ==
    \E c \in ClusterIds :
        /\ bcall.op = "Revoke"
        /\ bcall.req.ClusterId = c
        /\ bresp = Plain("ok", "")
        /\ records[c].Status = "REVOKED"
        /\ records[c].AgentID # 0

\* resp.Credentials != nil
HasCredentials(resp) == resp.CaCertPem # ""

C17_ValidationFailure ==
    [][(bcall'.op = "RequestCredentials"
          /\ (bcall'.req.ClusterId = "" \/ bcall'.req.ClusterName = "")) =>
             /\ bresp' = Plain("InvalidArgument", "")
             /\ records' = records
             /\ issued' = issued
             /\ bpc' = bpc
      ]_vars

\* a request with a token and no cluster_name, for a cluster without a
\* record, was refused
C17_Witness ==
    \E c \in ClusterIds :
        /\ bcall.op = "RequestCredentials"
        /\ bcall.req.ClusterId = c
        /\ bcall.req.ClusterName = ""
        /\ bcall.req.ApiToken # ""
        /\ bresp = Plain("InvalidArgument", "")
        /\ records[c] = NoRecord
        /\ \A b \in Callers : bpc[b] = "idle"

\* C18 (SpecBroker): for a cluster without a record, RequestCredentials with
\* an api_token goes on to approveAgent, which (unless the certificate
\* cannot be generated) stores an APPROVED record with an identity issued
\* now and returns it as Approved together with the CA certificate;
\* without a token it stores a PENDING record without identity and returns
\* Pending with poll interval 30.
C18_FirstRequest ==
    [][\A c \in ClusterIds :
          /\ (ValidCallFor(c) /\ records[c] = NoRecord) =>
                /\ records' = records /\ issued' = issued
                /\ \E b \in Callers :
                      /\ bpc[b] = "idle"
                      /\ bpc'[b] = IF bcall'.req.ApiToken # "" THEN "rc_approve"
                                                                ELSE "rc_pending"
                      /\ breq'[b] = bcall'.req
          /\ \A b \in Callers :
                (bpc[b] = "rc_approve" /\ bpc'[b] = "idle" /\ breq[b].ClusterId = c) =>
                   \/ bresp'.kind = "Internal"
                   \/ /\ bresp'.kind = "Approved"
                      /\ issued' = issued + 1
                      /\ records'[c].Status = "APPROVED"
                      /\ records'[c].ClusterName = breq[b].ClusterName
                      /\ records'[c].AgentID = issued + 1
                      /\ records'[c].AgentSecret # 0
                      /\ records'[c].ClientCertPEM # 0
                      /\ records'[c].ClientKeyPEM # 0
                      /\ bresp'.AgentId = records'[c].AgentID
                      /\ bresp'.AgentSecret = records'[c].AgentSecret
                      /\ bresp'.ClientCertPem = records'[c].ClientCertPEM
                      /\ bresp'.ClientKeyPem = records'[c].ClientKeyPEM
                      /\ bresp'.CaCertPem # ""
          /\ \A b \in Callers :
                (bpc[b] = "rc_pending" /\ bpc'[b] = "idle" /\ breq[b].ClusterId = c) =>
                   /\ bresp'.kind = "Pending"
                   /\ bresp'.PollIntervalSeconds = 30
                   /\ issued' = issued
                   /\ records'[c].Status = "PENDING"
                   /\ records'[c].ClusterName = breq[b].ClusterName
                   /\ records'[c].AgentID = 0 /\ records'[c].AgentSecret = 0
                   /\ records'[c].ClientCertPEM = 0 /\ records'[c].ClientKeyPEM = 0
      ]_vars

\* the first request of a cluster, without a token, has been stored as
\* PENDING and answered Pending
C18_Witness ==
    \E c \in ClusterIds :
        /\ bcall.op = "RequestCredentialsPending"
        /\ bcall.req.ClusterId = c
        /\ bresp.kind = "Pending" /\ bresp.PollIntervalSeconds = 30
        /\ records[c].Status = "PENDING"
        /\ issued = 0

\* C19 (SpecBroker), the claim as stated: when RequestCredentials calls with
\* an api_token overlap on a cluster that had no record, one identity is
\* issued for the cluster: a call that returns Approved does not replace an
\* identity already stored (and already handed to another caller).
C19_OneIdentityPerCluster ==
    [][\A c \in ClusterIds, b \in Callers :
          \* the step is the approveAgent of a RequestCredentials call of
          \* caller b for cluster c, returning Approved
          (/\ bpc[b] = "rc_approve" /\ bpc'[b] = "idle"
           /\ breq[b].ClusterId = c
           /\ bresp'.kind = "Approved") => records[c].AgentID = 0
      ]_vars

\* C20 (SpecBroker), the claim as stated: once Revoke or ManualReject has set
\* the record of a cluster to REVOKED or REJECTED, no later step of a
\* ManualApprove that was in flight makes the record APPROVED.
C20_NoApproveAfterRevoke ==
    [][\A c \in ClusterIds :
          (Terminal(records[c]) /\ ManualApproveDone(c)) =>
              records'[c].Status # "APPROVED"
      ]_vars

(***************************************************************************)
(* The read side of the registry and the health sweep, under direct        *)
(* callers: tests and API handlers reach the registry of the service       *)
(* through Service.GetRegistry().                                          *)
(***************************************************************************)

\* the operation that ran last
Op(op, key, timeout) ==
    [op |-> op, key |-> key, timeout |-> timeout, hb |-> NilHeartbeat]

\* a caller builds info := &AgentInfo{ClusterID: c, Labels: ...,
\* Capabilities: ...} at address o, its map and its capabilities message
\* allocated with it, and registers it
RegisterAgent(p, id, c, cell) ==
    /\ pc[p] = "idle"
    /\ nextObj < Len(ObjPool)
    /\ LET o == ObjPool[nextObj + 1]
           inf == [ZeroInfo EXCEPT
                      !.clusterID = c,
                      !.labels = IF cell.Labels = "" THEN NilRef ELSE o,
                      !.capabilities =
                          IF cell.Capabilities = "" THEN NilRef ELSE o]
       IN /\ RegisterWith(p, id, o, inf, NilChan)
          /\ heap' = [heap EXCEPT ![o] = cell]
    /\ nextObj' = nextObj + 1
    /\ lastOp' = Op("Register", id, 0)
    /\ UNCHANGED <<taskVars, ret, hpc, htimeout, sctx, spc>>

\* a caller unregisters an id.  Unregister holds r.mu from its first line
\* to its return, and here no sender holds info.mu, so that nothing
\* observes it half done: it is taken as one step
UnregisterAgent(p, id) ==
    /\ pc[p] = "idle"
    /\ rmu = NoTask
    /\ IF agents[id] = NoObj
         THEN UNCHANGED <<agents, info, chan, histVars>>
         ELSE LET o == agents[id]
                  r == CloseOnce(info[o], chan[o])
              IN /\ mu[o] = NoTask
                 /\ info' = [info EXCEPT ![o] = r.info]
                 /\ chan' = [chan EXCEPT ![o] = r.ch]
                 /\ closeCount' = [closeCount EXCEPT ![o] = @ + r.closes]
                 /\ panicked' = (panicked \/ r.panic)
                 /\ agents' = MapDelete(agents, id)
                 /\ unregDone' = unregDone \cup {id}
                 /\ UNCHANGED accepted
    /\ lastOp' = Op("Unregister", id, 0)
    /\ UNCHANGED <<mu, rmu, now, nextObj, nextMsg, taskVars>>
    /\ UNCHANGED <<heap, ret, hpc, htimeout, sctx, spc>>

\* a caller reports a heartbeat for an id
Heartbeat(id, hb) ==
    /\ UpdateHeartbeat(id, hb)
    /\ lastOp' = [Op("UpdateHeartbeat", id, 0) EXCEPT !.hb = hb]
    /\ UNCHANGED <<taskVars, heap, ret, hpc, htimeout, sctx, spc>>

\* the clock advances
Tick ==
    /\ now < MaxTime
    /\ now' = now + 1
    /\ lastOp' = Op("Tick", "", 0)
    /\ UNCHANGED <<agents, info, chan, mu, rmu, nextObj, nextMsg>>
    /\ UNCHANGED <<taskVars, histVars, heap, ret, hpc, htimeout, sctx, spc>>

\* as Stale, with a heartbeat exactly timeout old counted as stale
Stale_Inclusive(inf, timeout) == now - inf.lastHeartbeat >= timeout

\* CheckHealth: now.Sub(info.LastHeartbeat) > timeout
Stale(inf, timeout) == now - inf.lastHeartbeat > timeout

\* the ids in the map, and the AgentInfo objects it points to
Registered == {id \in Ids : agents[id] # NoObj}
RegisteredObjs == {agents[id] : id \in Registered}

\* as CheckHealth, marking the entries that are not stale HEALTHY
CheckHealth_Resets(timeout) ==
    /\ rmu = NoTask
    /\ info' = [o \in Objs |->
                  IF o \in RegisteredObjs
                      THEN [info[o] EXCEPT !.status =
                               IF Stale(info[o], timeout) THEN "UNHEALTHY"
                                                          ELSE "HEALTHY"]
                      ELSE info[o]]
    /\ lastOp' = Op("CheckHealth", "", timeout)
    /\ UNCHANGED <<agents, chan, mu, rmu, now, nextObj, nextMsg>>
    /\ UNCHANGED <<taskVars, histVars, heap, ret>>

\* Registry.CheckHealth(timeout): the whole body runs under r.mu.Lock();
\* the loop sets the status of every entry of the map that is stale
CheckHealth(timeout) ==
    /\ rmu = NoTask
    /\ info' = [o \in Objs |->
                  IF o \in RegisteredObjs /\ Stale(info[o], timeout)
                      THEN [info[o] EXCEPT !.status = "UNHEALTHY"]
                      ELSE info[o]]
    /\ lastOp' = Op("CheckHealth", "", timeout)
    /\ UNCHANGED <<agents, chan, mu, rmu, now, nextObj, nextMsg>>
    /\ UNCHANGED <<taskVars, histVars, heap, ret>>

\* the orders in which ranging over a map may yield the keys in S
Orders(S) ==
    {s \in [1..Cardinality(S) -> S] :
        \A i, j \in 1..Cardinality(S) : s[i] = s[j] => i = j}

\* as List, stopping after the first entry
List_First(ord) ==
    [i \in 1..(IF Len(ord) > 0 THEN 1 ELSE 0) |->
        copyAgentInfo(info[agents[ord[i]]])]

\* Registry.List: a copy of every entry, in the order the range yields
List(ord) == [i \in 1..Len(ord) |-> copyAgentInfo(info[agents[ord[i]]])]

\* as GetByCluster, without the comparison of the cluster id
GetByCluster_All(c, ord) == List(ord)

\* Registry.GetByCluster: the copies of the entries whose ClusterID matches
GetByCluster(c, ord) == SelectSeq(List(ord), LAMBDA v : v.clusterID = c)

\* Service.GetAgentStatus: agent, ok := s.registry.Get(req.ClusterId)
GetAgentStatus(c) ==
    IF ~Get(c).found
        THEN AgentStatusResponse("DISCONNECTED", "", 0, "UNSPECIFIED")
        ELSE AgentStatusResponse("CONNECTED", Get(c).info.agentID,
                                 Get(c).info.lastHeartbeat, Get(c).info.status)

\* a read returns: the read operations take r.mu.RLock()
ReadReturns(op, key, found, vals, resp) ==
    /\ rmu = NoTask
    /\ ret' = [op |-> op, key |-> key, found |-> found, vals |-> vals,
               resp |-> resp]
    /\ lastOp' = Op(op, key, 0)
    /\ UNCHANGED <<regVars, taskVars, histVars, heap, hpc, htimeout, sctx, spc>>

CallGet(id) ==
    ReadReturns("Get", id, Get(id).found,
              IF Get(id).found THEN <<Get(id).info>> ELSE <<>>, NoStatus)

CallList ==
    \E ord \in Orders(Registered) :
        ReadReturns("List", "", TRUE, List(ord), NoStatus)

CallGetByCluster(c) ==
    \E ord \in Orders(Registered) :
        ReadReturns("GetByCluster", c, TRUE, GetByCluster(c, ord), NoStatus)

CallGetAgentStatus(c) ==
    ReadReturns("GetAgentStatus", c, TRUE, <<>>, GetAgentStatus(c))

\* the caller writes to the i-th value it was returned: a scalar field of
\* the copy, or an entry of the map (a field of the message) the copy
\* refers to
ModifyReturned(i, f, v) ==
    /\ i \in 1..Len(ret.vals)
    /\ \/ /\ f = "Status"
          /\ v # ret.vals[i].status
          /\ ret' = [ret EXCEPT !.vals[i].status = v]
          /\ heap' = heap
       \/ /\ f = "Labels"
          /\ ret.vals[i].labels # NilRef
          /\ v # heap[ret.vals[i].labels].Labels
          /\ heap' = [heap EXCEPT ![ret.vals[i].labels].Labels = v]
          /\ ret' = ret
       \/ /\ f = "Capabilities"
          /\ ret.vals[i].capabilities # NilRef
          /\ v # heap[ret.vals[i].capabilities].Capabilities
          /\ heap' = [heap EXCEPT ![ret.vals[i].capabilities].Capabilities = v]
          /\ ret' = ret
    /\ lastOp' = Op("Modify", f, 0)
    /\ UNCHANGED <<regVars, taskVars, histVars, hpc, htimeout, sctx, spc>>

\* registrations, heartbeats, reads, and writes to what the reads
\* returned.  A registering caller supplies neither Labels nor Capabilities
\* (a nil map and a nil pointer), or both.
NextReads ==
  /\ UNCHANGED <<streamVars, brokerVars, peerVars>>
  /\
    \/ \E p \in Procs, id \in ReadIds, c \in SessionClusters,
         cell \in {NoCell, [Labels |-> "env=prod", Capabilities |-> "scaling"]} :
            RegisterAgent(p, id, c, cell)
    \/ \E p \in Procs, id \in ReadIds : UnregisterAgent(p, id)
    \/ \E id \in ReadIds : CallGet(id)
    \/ CallList
    \/ \E c \in SessionClusters : CallGetByCluster(c)
    \/ \E c \in SessionClusters : CallGetAgentStatus(c)
    \/ ModifyReturned(1, "Status", "UNHEALTHY")
    \/ ModifyReturned(1, "Labels", "env=dev")
    \/ ModifyReturned(1, "Capabilities", "none")

SpecReads == InitDirect /\ [][NextReads]_vars

\* registrations, heartbeats and sweeps while the clock advances.  The
\* heartbeats that arrive are without a payload, or report either status
\* with no active job or with the most.
NextHealth ==
  /\ UNCHANGED <<streamVars, brokerVars, peerVars>>
  /\
    \/ \E p \in Procs, id \in ReadIds : RegisterAgent(p, id, "c1", NoCell)
    \/ \E p \in Procs, id \in ReadIds : UnregisterAgent(p, id)
    \/ \E id \in ReadIds,
         hb \in {NilHeartbeat} \cup
                {h \in Heartbeats : h.activeJobs \in {0, MaxJobs}} :
            Heartbeat(id, hb)
    \/ Tick
    \/ \E timeout \in 1..MaxTimeout :
            CheckHealth(timeout) /\ UNCHANGED <<hpc, htimeout, sctx, spc>>

SpecHealth == InitDirect /\ [][NextHealth]_vars

(***************************************************************************)
(* Claims about the read operations and the health sweep.                  *)
(***************************************************************************)
\* the registered ids whose session reports cluster c
SessionsOf(c) == {id \in Registered : info[agents[id]].clusterID = c}

\* C21: GetAgentStatus(cluster_id) answers CONNECTED, with the session id,
\* the last-seen time and the health status of a session of that cluster,
\* whenever at least one registered session has that cluster_id, and
\* DISCONNECTED (without an error) exactly when none has it.
C21_StatusByCluster ==
    lastOp.op = "GetAgentStatus" =>
        IF SessionsOf(ret.key) = {}
            THEN ret.resp.Status = "DISCONNECTED"
            ELSE /\ ret.resp.Status = "CONNECTED"
                 /\ \E id \in SessionsOf(ret.key) :
                        /\ ret.resp.AgentId = id
                        /\ ret.resp.LastSeen = info[agents[id]].lastHeartbeat
                        /\ ret.resp.HealthStatus = info[agents[id]].status

\* C22: CheckHealth(timeout) changes nothing but the status of the
\* registered sessions whose last heartbeat is older than timeout, which
\* becomes UNHEALTHY: it removes no session and closes no queue; Count, the
\* queues, every last heartbeat and the status of every session that is
\* not stale stay as they were.
C22_CheckHealth ==
    [][lastOp'.op = "CheckHealth" =>
        /\ agents' = agents
        /\ Count' = Count
        /\ chan' = chan
        /\ closeCount' = closeCount
        /\ \A o \in Objs :
            /\ info'[o].lastHeartbeat = info[o].lastHeartbeat
            /\ [info'[o] EXCEPT !.status = "any"] = [info[o] EXCEPT !.status = "any"]
            /\ IF /\ o \in RegisteredObjs
                  /\ now - info[o].lastHeartbeat > lastOp'.timeout
                 THEN info'[o].status = "UNHEALTHY"
                 ELSE info'[o].status = info[o].status]_vars

\* a sweep found one session stale and another, whose last heartbeat was
\* exactly timeout old, not stale
C22_Witness ==
    /\ lastOp.op = "CheckHealth"
    /\ \E o1, o2 \in RegisteredObjs :
        /\ now - info[o1].lastHeartbeat > lastOp.timeout
        /\ info[o1].status = "UNHEALTHY"
        /\ now - info[o2].lastHeartbeat = lastOp.timeout
        /\ info[o2].status = "HEALTHY"

\* C23: the passage of time alone never changes the status of a session.
\* A session whose last heartbeat has become stale keeps its status until
\* a CheckHealth runs, and that CheckHealth (no Register, no clock tick)
\* is the step that makes it UNHEALTHY; the only other step that changes
\* the status of a registered session is its own heartbeat, which makes the
\* last heartbeat fresh again.
C23_OnlySweepMarksStale ==
    [][/\ lastOp'.op = "Tick" => info' = info /\ agents' = agents
       /\ \A o \in RegisteredObjs, timeout \in 1..MaxTimeout :
            /\ now - info[o].lastHeartbeat > timeout
            /\ info'[o].status # info[o].status
            => \/ /\ lastOp'.op = "CheckHealth"
                  /\ now - info[o].lastHeartbeat > lastOp'.timeout
                  /\ info'[o].status = "UNHEALTHY"
               \/ /\ lastOp'.op = "UpdateHeartbeat"
                  /\ agents[lastOp'.key] = o
                  /\ info'[o].lastHeartbeat = now']_vars

\* the clock has made a HEALTHY session stale for every timeout, and no
\* sweep has run since
C23_Witness ==
    /\ lastOp.op = "Tick"
    /\ \E o \in RegisteredObjs :
        /\ now - info[o].lastHeartbeat > MaxTimeout
        /\ info[o].status = "HEALTHY"

\* C24: after N Register calls with distinct ids (and no Unregister of
\* them), Count() is N and List() returns N values: a Register of an id that
\* is not in the map adds one entry, a Register of an id that is in the map
\* replaces its entry, an Unregister of a registered id removes one entry,
\* and no other step changes the number of entries; List returns as many
\* values as Count says, one for each registered id.
C24_CountIsNumberRegistered ==
    [][/\ lastOp'.op = "Register" =>
            /\ Registered' = Registered \cup {lastOp'.key}
            /\ Count' = IF lastOp'.key \in Registered THEN Count ELSE Count + 1
       /\ lastOp'.op = "Unregister" =>
            /\ Registered' = Registered \ {lastOp'.key}
            /\ Count' = IF lastOp'.key \in Registered THEN Count - 1 ELSE Count
       /\ lastOp'.op \notin {"Register", "Unregister"} => Count' = Count
       /\ Count' = Cardinality(Registered')
       /\ lastOp'.op = "List" =>
            /\ Len(ret'.vals) = Count
            /\ {ret'.vals[i].agentID : i \in 1..Len(ret'.vals)} = Registered]_vars

\* two sessions with distinct ids are registered and List returned both
C24_Witness ==
    /\ lastOp.op = "List"
    /\ Count = 2
    /\ Len(ret.vals) = 2
    /\ ret.vals[1].agentID # ret.vals[2].agentID

\* C25: GetByCluster(c) returns exactly the registered sessions whose
\* cluster_id is c, each once, as copies of their entries: all the sessions
\* of the cluster when there are several, none of another cluster, nothing
\* when no session has that cluster.
C25_GetByCluster ==
    lastOp.op = "GetByCluster" =>
        /\ Len(ret.vals) = Cardinality(SessionsOf(ret.key))
        /\ {ret.vals[i].agentID : i \in 1..Len(ret.vals)} = SessionsOf(ret.key)
        /\ \A i \in 1..Len(ret.vals) :
            /\ ret.vals[i].clusterID = ret.key
            /\ ret.vals[i] = Get(ret.vals[i].agentID).info

\* two sessions of different clusters are registered, and GetByCluster
\* returned the one of the cluster asked for
C25_Witness ==
    /\ lastOp.op = "GetByCluster"
    /\ Count = 2
    /\ Len(ret.vals) = 1
    /\ \E id \in Registered : info[agents[id]].clusterID # ret.key

\* what the registry holds under an id and what a Get of the id shows: the
\* fields of the entry, the contents of its Labels map and of its
\* Capabilities message
Stored(id) ==
    LET Deref(ref) == IF ref = NilRef THEN NoCell ELSE heap[ref]
    IN [found |-> Get(id).found, info |-> Get(id).info,
        Labels |-> Deref(Get(id).info.labels).Labels,
        Capabilities |-> Deref(Get(id).info.capabilities).Capabilities]

\* C26: the values Get, List and GetByCluster return are independent of
\* the registry: they carry no queue handle, and no write a caller makes to
\* a returned value (a scalar field, the label map, the capability set)
\* changes what the registry holds or what a later read returns.
C26_CopiesAreIndependent ==
    [][lastOp'.op = "Modify" => \A id \in Ids : Stored(id)' = Stored(id)]_vars

\* C27: UpdateHeartbeat(s, hb) on a registered session s sets its last
\* heartbeat to the current time and its status and active job count to
\* the values hb carries, and changes no other session; on an id that is
\* not registered it does nothing: no entry is created, Count is unchanged.
C27_UpdateHeartbeat ==
    [][lastOp'.op = "UpdateHeartbeat" =>
        LET id == lastOp'.key
            hb == lastOp'.hb
        IN /\ agents' = agents
           /\ Count' = Count
           /\ id \notin Registered => info' = info
           /\ id \in Registered =>
                /\ info'[agents[id]].lastHeartbeat = now
                /\ ~hb.nil => /\ info'[agents[id]].status = hb.status
                              /\ info'[agents[id]].activeJobs = hb.activeJobs
                /\ hb.nil => /\ info'[agents[id]].status = info[agents[id]].status
                             /\ info'[agents[id]].activeJobs = info[agents[id]].activeJobs
                /\ \A f \in {"agentID", "clusterID", "labels", "capabilities",
                             "connectedAt", "closed"} :
                        info'[agents[id]][f] = info[agents[id]][f]
                /\ \A o \in Objs \ {agents[id]} : info'[o] = info[o]]_vars

\* a heartbeat of one of two registered sessions arrived after the clock
\* moved, reporting a job and a status the session did not have
C27_Witness ==
    /\ lastOp.op = "UpdateHeartbeat"
    /\ Count = 2
    /\ lastOp.key \in Registered
    /\ lastOp.hb.activeJobs > 0
    /\ info[agents[lastOp.key]].lastHeartbeat > info[agents[lastOp.key]].connectedAt
    /\ \E id \in Registered :
        info[agents[id]].status # info[agents[lastOp.key]].status

(***************************************************************************)
(* The lifecycle of the service: the health checker goroutine, Shutdown    *)
(* and Server.Stop, next to an accepted stream.                            *)
(***************************************************************************)
\* as WaitGroupZero, not waiting at all
WaitGroupZero_NoWait == TRUE

\* s.wg.Wait() returns when the counter is zero.  s.wg counts the health
\* checker (StartHealthCheckerWithInterval: s.wg.Add(1)) and the two
\* goroutines of every stream (AgentStream: s.wg.Add(1) before each go);
\* each leaves with its deferred s.wg.Done()
WaitGroupZero ==
    /\ hpc \in {"off", "done"}
    /\ \A st \in Streams : ipc[st] \in {"off", "done"} /\ opc[st] \in {"off", "done"}

\* StartHealthCheckerWithInterval(timeout, checkInterval): s.wg.Add(1) and
\* the goroutine starts.  NewServer calls it once while it builds the
\* server, tests call it before their deferred Shutdown.
StartHealthChecker(timeout) ==
    /\ hpc = "off"
    /\ spc = "idle"
    /\ hpc' = "select"
    /\ htimeout' = timeout
    /\ lastOp' = Op("StartHealthChecker", "", timeout)
    /\ UNCHANGED <<regVars, taskVars, histVars, heap, ret, sctx, spc>>

\* the health checker: case <-ticker.C: s.registry.CheckHealth(timeout).
\* When the context is cancelled as well, select may still take this case.
HealthTick ==
    /\ hpc = "select"
    /\ CheckHealth(htimeout)
    /\ UNCHANGED <<hpc, htimeout, sctx, spc>>

\* the health checker: case <-s.ctx.Done(): return, ready once s.cancel()
\* was called; the deferred ticker.Stop() and s.wg.Done() run
HealthExit ==
    /\ hpc = "select"
    /\ sctx
    /\ hpc' = "done"
    /\ lastOp' = Op("HealthExit", "", 0)
    /\ UNCHANGED <<regVars, taskVars, histVars, heap, ret, htimeout, sctx, spc>>

\* Shutdown: s.cancel().  Called directly, or by Server.Stop.
ShutdownCancel(viaStop) ==
    /\ spc = "idle"
    /\ sctx' = TRUE
    /\ spc' = IF viaStop THEN "stop_wait" ELSE "wait"
    /\ lastOp' = Op("Shutdown", "", 0)
    /\ UNCHANGED <<regVars, taskVars, histVars, heap, ret, hpc, htimeout>>

\* Shutdown: s.wg.Wait() returns, and so does Shutdown
ShutdownWait ==
    /\ spc \in {"wait", "stop_wait"}
    /\ WaitGroupZero
    /\ spc' = IF spc = "wait" THEN "returned" ELSE "graceful"
    /\ lastOp' = Op("Shutdown", "", 0)
    /\ UNCHANGED <<regVars, taskVars, histVars, heap, ret, hpc, htimeout, sctx>>

\* Server.Stop: s.grpcServer.GracefulStop() blocks until every pending RPC
\* has finished, that is until every AgentStream call has returned
GracefulStop ==
    /\ spc = "graceful"
    /\ \A st \in Streams : pc[st] \in {"closed", "returned"}
    /\ spc' = "stopped"
    /\ lastOp' = Op("GracefulStop", "", 0)
    /\ UNCHANGED <<regVars, taskVars, histVars, heap, ret, hpc, htimeout, sctx>>

\* what a step of a stream leaves alone, next to the lifecycle of the service
StreamStepFrame ==
    /\ lastOp' = Op("AgentStream", "", 0)
    /\ UNCHANGED <<heap, ret, hpc, htimeout, sctx, spc>>
    /\ UNCHANGED <<brokerVars, peerVars>>

\* the health checker, Shutdown and Server.Stop, the clock, and the steps
\* of an accepted stream
NextServer ==
  /\ UNCHANGED <<brokerVars, peerVars>>
  /\
    \/ \E timeout \in 1..MaxTimeout :
            StartHealthChecker(timeout) /\ UNCHANGED streamVars
    \/ HealthTick /\ UNCHANGED streamVars
    \/ HealthExit /\ UNCHANGED streamVars
    \/ \E viaStop \in BOOLEAN : ShutdownCancel(viaStop) /\ UNCHANGED streamVars
    \/ ShutdownWait /\ UNCHANGED streamVars
    \/ GracefulStop /\ UNCHANGED streamVars
    \/ Tick /\ UNCHANGED streamVars
    \/ SessionSteps /\ StreamStepFrame

\* one stream is accepted; the health checker is not started yet
SpecServer == InitStream /\ [][NextServer]_vars

\* the steps the handler goroutine of a stream takes without the peer; its
\* first Recv and its Send of the ack may block, and return once the
\* context of the stream is cancelled
HandlerSteps(st) ==
    \/ ctxDone[st] /\ RecvFirst(st, "recv_error")
    \/ HandlerRegister(st)
    \/ HandlerAckBegin(st)
    \/ ctxDone[st] /\ HandlerAckEnd(st, FALSE)
    \/ HandlerSpawn(st)
    \/ HandlerWait(st)
    \/ HandlerUnregisterLock(st)
    \/ HandlerUnregisterClose(st)
    \/ HandlerUnregisterDelete(st)

\* the steps sendMessages takes without the peer; its Send may block, and
\* returns once the context of the stream is cancelled
OutboundSteps(st) ==
    \/ OutboundDequeue(st)
    \/ ctxDone[st] /\ OutboundSendEnd(st, FALSE)
    \/ OutboundClosed(st)
    \/ OutboundCancelled(st)
    \/ OutboundReport(st)

\* the ticker keeps firing and the goroutines of the service are scheduled:
\* the health checker takes each case of its select that stays ready, every
\* goroutine of a stream takes the steps it can take without the peer, and
\* a wg.Wait() or GracefulStop() that can return does; a Recv of
\* receiveMessages on a cancelled stream returns an error.  Nothing is
\* assumed of the agents: a stream may stay open for ever.
SpecServerFair ==
    /\ InitStream
    /\ [][NextServer]_vars
    /\ \A st \in Streams : WF_vars(HandlerSteps(st) /\ StreamStepFrame)
    /\ \A st \in Streams : WF_vars(OutboundSteps(st) /\ StreamStepFrame)
    /\ \A st \in Streams :
        WF_vars(/\ \/ ctxDone[st] /\ InboundEnd(st, "recv_error")
                   \/ InboundReport(st)
                /\ StreamStepFrame)
    /\ WF_vars(HealthTick /\ UNCHANGED <<streamVars, brokerVars, peerVars>>)
    /\ WF_vars(HealthExit /\ UNCHANGED <<streamVars, brokerVars, peerVars>>)
    /\ WF_vars(ShutdownWait /\ UNCHANGED <<streamVars, brokerVars, peerVars>>)
    /\ WF_vars(GracefulStop /\ UNCHANGED <<streamVars, brokerVars, peerVars>>)

(***************************************************************************)
(* Claims about the lifecycle of the service.                              *)
(***************************************************************************)
\* the call of Shutdown has returned
ShutdownReturned == spc \in {"returned", "graceful", "stopped"}

\* C28: the health checker goes on calling CheckHealth, tick after tick,
\* until Shutdown is called; Shutdown cancels the signal of the service and
\* does not return before the health checker has exited; once Shutdown has
\* returned no CheckHealth runs.
C28_HealthCheckerUntilShutdown ==
    /\ [](hpc = "done" => sctx)
    /\ [](spc # "idle" => sctx)
    /\ [](ShutdownReturned => hpc \in {"off", "done"})
    /\ [][ShutdownReturned => lastOp'.op # "CheckHealth"]_vars
    /\ (hpc = "select" /\ ~sctx) ~> (lastOp.op = "CheckHealth" \/ sctx)

\* the health checker swept, exited after the cancel, and Shutdown returned
C28_Witness ==
    /\ ShutdownReturned
    /\ hpc = "done"
    /\ \E o \in RegisteredObjs : info[o].status = "UNHEALTHY"

\* C29: Shutdown always terminates: after cancelling the signal it
\* returns as soon as the health checker has exited, and it neither severs
\* nor waits for the sessions in flight; with sessions whose agents never
\* disconnect, Shutdown, and Server.Stop which calls it before the graceful
\* stop of the transport, still return.
C29_ShutdownReturns == (spc \in {"wait", "stop_wait"}) ~> ShutdownReturned

(***************************************************************************)
(* The streaming service under fair scheduling.                            *)
(***************************************************************************)
\* the goroutines are scheduled: every goroutine of a stream takes the
\* steps it can take without the peer, a Recv or a Send on a cancelled
\* stream returns, and an API caller inside sendMessage goes on: it takes
\* info.mu when it is free and leaves the critical section.  Nothing is
\* assumed of the agents.
SpecStreamFair ==
    /\ InitStream
    /\ [][NextStream]_vars
    /\ \A st \in Streams :
        WF_vars(HandlerSteps(st) /\ UNCHANGED <<brokerVars, peerVars, svcVars>>)
    /\ \A st \in Streams :
        WF_vars(OutboundSteps(st) /\ UNCHANGED <<brokerVars, peerVars, svcVars>>)
    /\ \A st \in Streams :
        WF_vars(/\ \/ ctxDone[st] /\ InboundEnd(st, "recv_error")
                   \/ InboundReport(st)
                /\ UNCHANGED <<brokerVars, peerVars, svcVars>>)
    /\ \A p \in Procs :
        WF_vars(/\ SendAcquire(p) \/ SendEnqueue(p)
                /\ UNCHANGED <<streamVars, brokerVars, peerVars, svcVars>>)

\* the session of the stream is registered (or was), and its stream has
\* reached its end: a Recv or a Send has failed, or the context of the
\* stream is cancelled
StreamEnded(st) ==
    /\ hid[st] # ""
    /\ \/ ctxDone[st]
       \/ ipc[st] \notin {"off", "recv"}
       \/ opc[st] \notin {"off", "select", "sending"}
       \/ hres[st] # "none"

\* the session is gone: no entry, the queue closed, both loops over (or
\* never started)
TornDown(st) ==
    /\ hid[st] # ""
    /\ agents[hid[st]] = NoObj
    /\ chan[InfoOf(st)].closed
    /\ ipc[st] \in {"off", "done"}
    /\ opc[st] \in {"off", "done"}

\* C30: once a session is registered, if its stream reaches end-of-input,
\* a receive or a send on it fails, or its cancellation signal fires, then
\* under fair scheduling the session is eventually absent from the
\* registry, its queue is closed, and its inbound and its outbound task
\* have both terminated.
C30_TeardownCompletes ==
    \A st \in Streams : StreamEnded(st) ~> TornDown(st)

\* a send to the agent failed while the inbound loop was waiting for the
\* agent, and the session was torn down all the same
C30_Witness ==
    \E st \in Streams :
        /\ TornDown(st)
        /\ hres[st] = "send_error"
        /\ ipc[st] = "done"
        /\ wire[st] # <<>>

(***************************************************************************)
(* Claims about failures of the certificate generation.                    *)
(***************************************************************************)
\* C33 (SpecBroker): when GenerateClientCert fails inside approveAgent, the
\* call returns an error (Internal on the token path of RequestCredentials,
\* an error from ManualApprove) and nothing else happens: no record is
\* created or changed, so that a cluster without a record still has none
\* and a PENDING record is still PENDING without an identity, no identity
\* is issued, and the CA certificate the service hands out is the same.
C33_FailedIssuanceChangesNothing ==
    [][\A b \in Callers :
          (/\ bpc[b] \in {"rc_approve", "ma_approve"}
           /\ bpc'[b] = "idle"
           /\ bresp'.kind \notin {"Approved", "ok"}) =>
             /\ bresp' = Plain(IF bpc[b] = "rc_approve" THEN "Internal"
                                                        ELSE "error", "")
             /\ records' = records
             /\ issued' = issued
             /\ \A c \in ClusterIds :
                  StatusResponse(records'[c]) = StatusResponse(records[c])
      ]_vars

\* the certificate of a ManualApprove could not be generated: the record is
\* still PENDING, without an identity, and no identity was ever issued
C33_Witness ==
    \E c \in ClusterIds :
        /\ bcall.op = "approveAgent"
        /\ bresp = Plain("error", "")
        /\ records[c].Status = "PENDING"
        /\ records[c].AgentID = 0
        /\ issued = 0

(***************************************************************************)
(* Claims about the sessions the registry no longer holds.                 *)
(***************************************************************************)
\* C40 (SpecRegistry), the claim as stated: in every reachable state, each
\* session that was passed to Register and is not held in the registry now
\* has its queue closed and its closed flag set, also when a Register under
\* an id that was already registered replaced the earlier entry.
C40_UnheldSessionsAreClosed ==
    \A o \in Objs :
        (info[o].agentID # "" /\ \A id \in Ids : agents[id] # o) =>
            chan[o].closed /\ info[o].closed

(***************************************************************************)
(* Claims about the values the sweep and the heartbeats write.             *)
(***************************************************************************)
\* C39 (SpecHealth): CheckHealth writes no status but UNHEALTHY and leaves
\* an UNHEALTHY session UNHEALTHY; the status of an UNHEALTHY session
\* changes only in an UpdateHeartbeat of that session with a payload, which
\* sets it to the status the payload reports; an UpdateHeartbeat without a
\* payload sets the last heartbeat of a registered session to the current
\* time and leaves its status and its active job count as they were.
C39_UnhealthyUntilReported ==
    [][\A o \in Objs :
          /\ lastOp'.op = "CheckHealth" =>
                info'[o].status \in {info[o].status, "UNHEALTHY"}
          /\ (info[o].status = "UNHEALTHY" /\ info'[o].status # "UNHEALTHY") =>
                /\ lastOp'.op = "UpdateHeartbeat"
                /\ ~lastOp'.hb.nil
                /\ agents[lastOp'.key] = o
                /\ info'[o].status = lastOp'.hb.status
          /\ (/\ lastOp'.op = "UpdateHeartbeat"
              /\ lastOp'.hb.nil
              /\ agents[lastOp'.key] = o) =>
                /\ info'[o].lastHeartbeat = now
                /\ info'[o].status = info[o].status
                /\ info'[o].activeJobs = info[o].activeJobs
      ]_vars

\* a sweep has run over a session that was UNHEALTHY and whose heartbeat,
\* refreshed after it connected, was not stale: it is UNHEALTHY still
C39_Witness ==
    /\ lastOp.op = "CheckHealth"
    /\ \E o \in RegisteredObjs :
        /\ info[o].status = "UNHEALTHY"
        /\ now - info[o].lastHeartbeat <= lastOp.timeout
        /\ info[o].lastHeartbeat > info[o].connectedAt

(***************************************************************************)
(* Claims about what is written to a stream, and when.                     *)
(***************************************************************************)
\* C37 (SpecStream): the first server message written to a stream is the
\* registration acknowledgment of its session: a Command or ConfigUpdate
\* the queue accepted between Register and the sending of the ack (the
\* session can be sent to from Register on) stays in the queue until the
\* ack is written, and is written after it.
C37_AckIsFirst ==
    \A st \in Streams :
        /\ wire[st] # <<>> => wire[st][1] = AckMessage(hid[st])
        /\ pc[st] \in {"send_ack", "acking"} =>
              /\ wire[st] = <<>>
              /\ opc[st] = "off"
              /\ chan[InfoOf(st)].buf = accepted[InfoOf(st)]

\* the handler is inside its Send of the ack, the session's queue has
\* accepted messages up to its capacity, and nothing is written yet
C37_Witness ==
    \E st \in Streams :
        /\ pc[st] = "acking"
        /\ "handler" \in writers[st]
        /\ Len(chan[InfoOf(st)].buf) = SendChanCap
        /\ wire[st] = <<>>

(***************************************************************************)
(* Claims about the result of AgentStream.                                 *)
(***************************************************************************)
\* C36 (SpecStreamFair), the claim as stated: the loop that terminates first
\* decides what AgentStream returns: success if it ended with io.EOF (the
\* inbound loop at end of input, the outbound loop at a closed queue), its
\* error if it ended with a receive error, a send error or the
\* cancellation; what the other loop returns later changes nothing.  (A
\* loop has terminated first with e when it has returned e while the other
\* loop is still running.)
C36_FirstLoopDecides ==
    \A st \in Streams, e \in {"EOF", "recv_error", "send_error", "ctx_error"} :
        []((/\ hres[st] = "none"
            /\ errChan[st] = <<>>
            /\ \/ ipc[st] = e /\ opc[st] \in {"select", "sending"}
               \/ opc[st] = e /\ ipc[st] = "recv")
           => [](hres[st] \in {"none", StreamResult(e)}))


\* C35 (SpecStream), the claim as stated: once the queue of a session has
\* been closed (by Unregister), the outbound loop takes no message from it
\* and writes no further message to the stream, even when messages that
\* were enqueued before the close are still buffered.
C35_NoWriteAfterClose ==
    [][\A st \in Streams :
          chan[InfoOf(st)].closed =>
             /\ wire'[st] = wire[st]
             /\ chan'[InfoOf(st)].buf = chan[InfoOf(st)].buf
      ]_vars

(***************************************************************************)
(* The streaming service when every Send returns.                          *)
(***************************************************************************)
\* the goroutines are scheduled as in SpecStreamFair, and every
\* stream.Send, of the handler (the ack) and of the outbound loop, returns:
\* with nil when the transport took the message, with an error otherwise
SpecStreamSends ==
    /\ SpecStreamFair
    /\ \A st \in Streams :
        WF_vars(/\ \E ok \in BOOLEAN : HandlerAckEnd(st, ok)
                /\ UNCHANGED <<brokerVars, peerVars, svcVars>>)
    /\ \A st \in Streams :
        WF_vars(/\ \E ok \in BOOLEAN : OutboundSendEnd(st, ok)
                /\ UNCHANGED <<brokerVars, peerVars, svcVars>>)

\* C38 (SpecStreamSends): a message for which SendCommand or
\* SendConfigUpdate returned success (the session's queue accepted it) is
\* eventually written to the stream of the session, unless the stream is
\* cancelled or the session is unregistered, which is also where a failed
\* Recv or Send of the stream leads.
C38_AcceptedIsWritten ==
    \A st \in Streams, n \in 1..MaxMsgs :
        (\E i \in 1..Len(accepted[InfoOf(st)]) : accepted[InfoOf(st)][i].id = n)
        ~> \/ \E j \in 1..Len(QueueWritten(st)) : QueueWritten(st)[j].id = n
           \/ ctxDone[st]
           \/ chan[InfoOf(st)].closed

\* both messages the queue accepted while it held the other are written,
\* and the stream is neither cancelled nor closed
C38_Witness ==
    \E st \in Streams :
        /\ Len(accepted[InfoOf(st)]) = MaxMsgs
        /\ QueueWritten(st) = accepted[InfoOf(st)]
        /\ ~ctxDone[st]
        /\ ~chan[InfoOf(st)].closed
        /\ ipc[st] = "recv"

(***************************************************************************)
(* The admin tooling: ListPending and GetAgent, called while the agents    *)
(* of two clusters request credentials and an operator decides on them.    *)
(***************************************************************************)
\* ListPending: pending := []*AgentState{}, then the range over s.agents
\* starts; no lock is held, so the calls of the service go on meanwhile
ListPendingBegin ==
    /\ admin.pc = "idle"
    /\ admin' = [admin EXCEPT !.pc = "range", !.todo = SessionClusters,
                              !.pending = <<>>,
                              !.seen = {{c \in SessionClusters :
                                            records[c].Status = "PENDING"}}]
    /\ UNCHANGED brokerVars

\* one turn of the range loop: the key c comes up (in the order the map
\* yields), its entry is appended if there is one and its status is PENDING
ListPendingVisit(c) ==
    /\ admin.pc = "range"
    /\ c \in admin.todo
    /\ admin' = [admin EXCEPT !.todo = @ \ {c},
                              !.pending = IF records[c].Status = "PENDING"
                                          THEN Append(@, c) ELSE @]
    /\ UNCHANGED brokerVars

\* the range is over: return pending
ListPendingReturn ==
    /\ admin.pc = "range"
    /\ admin.todo = {}
    /\ admin' = [admin EXCEPT !.pc = "idle"]
    /\ UNCHANGED brokerVars

\* GetAgent: the entry of the map, or an error when there is none
GetAgent(c) ==
    /\ admin.pc = "idle"
    /\ admin' = [admin EXCEPT !.agent = records[c],
                              !.err = (records[c] = NoRecord)]
    /\ UNCHANGED brokerVars

\* the calls of the service for the two clusters, made one at a time by
\* one caller; while a ListPending is running, admin.seen collects the
\* sets of PENDING records it overlapped
AdminCalls ==
    /\ \/ \E b \in {"b1"},
             req \in [ClusterId : SessionClusters, ClusterName : {"n1"},
                      ApiToken : {"", "tok"}, AgentVersion : {"v1"}] :
                RequestCredentials(b, req)
       \/ \E b \in {"b1"} : RequestCredentialsPending(b)
       \/ \E b \in {"b1"}, certOk \in BOOLEAN : approveAgent(b, certOk)
       \/ \E b \in {"b1"}, c \in SessionClusters : ManualApprove(b, c)
       \/ \E b \in {"b1"}, c \in SessionClusters : ManualReject(b, c)
       \/ \E b \in {"b1"}, c \in SessionClusters : Revoke(b, c)
    /\ admin' = [admin EXCEPT !.seen =
                     IF admin.pc = "range"
                     THEN @ \cup {{c \in SessionClusters :
                                      records'[c].Status = "PENDING"}}
                     ELSE @]

NextAdmin ==
    /\ \/ AdminCalls
       \/ ListPendingBegin
       \/ \E c \in SessionClusters : ListPendingVisit(c)
       \/ ListPendingReturn
       \/ \E c \in SessionClusters : GetAgent(c)
    /\ UNCHANGED <<regVars, taskVars, histVars, streamVars, svcVars, peerCert>>

SpecAdmin == InitBroker /\ [][NextAdmin]_vars

\* C32 (SpecAdmin): what ListPending returns is exactly the set of records
\* that were PENDING at a moment of the call (at its start, or after one of
\* the changes the map went through while it ran), and no step of
\* ListPending or of GetAgent changes a record.
C32_ListPendingExact ==
    [][/\ (admin.pc = "range" /\ admin'.pc = "idle")
           => {admin'.pending[i] : i \in 1..Len(admin'.pending)} \in admin.seen
       /\ (\/ admin'.pc # admin.pc
           \/ admin'.todo # admin.todo
           \/ admin'.agent # admin.agent
           \/ admin'.err # admin.err)
           => (records' = records /\ issued' = issued)]_vars

(***************************************************************************)
(* The server: one gRPC server with both services, reached by agents that  *)
(* request credentials and open streams over connections of their own.     *)
(***************************************************************************)
\* what a client presents in the TLS handshake: no certificate ("none"), one
\* that verifies against the CA pool, or one that does not.
\* tls.VerifyClientCertIfGiven, the ClientAuth of the credentials NewServer
\* builds: the handshake succeeds without a client certificate, and with
\* one if it verifies against ClientCAs
VerifyClientCertIfGiven(cert) == cert \in {"none", "verified"}

\* the server accepts a connection and a call of AgentStream on it: the
\* handler starts, at its first Recv
Accept(st, cert) ==
    /\ pc[st] = "closed"
    /\ VerifyClientCertIfGiven(cert)
    /\ pc' = [pc EXCEPT ![st] = "recv_first"]
    /\ peerCert' = [peerCert EXCEPT ![st] = cert]
    /\ UNCHANGED <<regVars, arg, res, histVars, streamVars, brokerVars,
                   svcVars, admin>>

\* as ServeCalls, a call that changes a record closing the queues of the
\* registered sessions
ServeCalls_Disconnects ==
    /\ \/ \E req \in [ClusterId : ClusterIds, ClusterName : {"n1"},
                        ApiToken : {"", "tok"}, AgentVersion : {"v1"}] :
                RequestCredentials("b1", req)
       \/ RequestCredentialsPending("b1")
       \/ \E certOk \in BOOLEAN : approveAgent("b1", certOk)
       \/ \E c \in ClusterIds : CheckStatus("b1", c)
       \/ \E c \in ClusterIds : ManualApprove("b1", c)
       \/ \E c \in ClusterIds : ManualReject("b1", c)
       \/ \E c \in ClusterIds : Revoke("b1", c)
    /\ chan' = [o \in Objs |->
                   IF records' # records /\ \E id \in Ids : agents[id] = o
                   THEN [chan[o] EXCEPT !.closed = TRUE] ELSE chan[o]]
    /\ UNCHANGED <<agents, info, mu, rmu, now, nextObj, nextMsg>>
    /\ UNCHANGED <<taskVars, histVars, streamVars, svcVars, peerVars>>

\* the calls of AgentManagementService, made one at a time: the service
\* NewServer creates is given the certificate manager and nothing of the
\* streaming service, so its calls leave the registry and the streams alone
ServeCalls ==
    /\ \/ \E req \in [ClusterId : ClusterIds, ClusterName : {"n1"},
                        ApiToken : {"", "tok"}, AgentVersion : {"v1"}] :
                RequestCredentials("b1", req)
       \/ RequestCredentialsPending("b1")
       \/ \E certOk \in BOOLEAN : approveAgent("b1", certOk)
       \/ \E c \in ClusterIds : CheckStatus("b1", c)
       \/ \E c \in ClusterIds : ManualApprove("b1", c)
       \/ \E c \in ClusterIds : ManualReject("b1", c)
       \/ \E c \in ClusterIds : Revoke("b1", c)
    /\ UNCHANGED <<regVars, taskVars, histVars, streamVars, svcVars, peerVars>>

NextServe ==
    \/ \E cert \in {"none", "verified", "unverifiable"} : Accept("s1", cert)
    \/ SessionSteps /\ UNCHANGED <<brokerVars, svcVars, peerVars>>
    \/ ServeCalls

SpecServe == InitDirect /\ [][NextServe]_vars

\* C31 (SpecServe): a stream whose handler has registered a session runs on
\* a connection whose peer presented a client certificate that verified
\* against the CA.
C31_SessionsOverVerifiedCert ==
    \A st \in Streams : hid[st] # "" => peerCert[st] = "verified"

\* C34 (SpecServe): a step of a credential call leaves the registry, the
\* sessions' queues and what Get returns as they were, and a step of a
\* stream or of the registry leaves the credential records as they were.
C34_BrokerAndRegistryApart ==
    [][/\ (bcall' # bcall \/ bresp' # bresp \/ bpc' # bpc \/ records' # records)
           => (regVars' = regVars /\ streamVars' = streamVars /\ heap' = heap)
       /\ (regVars' # regVars \/ streamVars' # streamVars)
           => (records' = records /\ issued' = issued)]_vars

\* the record of c1 was rejected or revoked while a session is registered,
\* its queue open and its loops running
C34_Witness ==
    /\ bcall.op \in {"ManualReject", "Revoke"}
    /\ bresp = Plain("ok", "")
    /\ records["c1"].Status \in {"REJECTED", "REVOKED"}
    /\ hid["s1"] # ""
    /\ agents[hid["s1"]] = InfoOf("s1")
    /\ ~chan[InfoOf("s1")].closed
    /\ pc["s1"] = "wait"
====
